---- MODULE Spec2Model ----
(***************************************************************************)
(* Model of gitlab-tools' bulk merge-request engine (package bulkmr):      *)
(* Service.ProcessProjects and Service.processProject, the gitlab types    *)
(* they use (MergeRequest.IsDraft, Compare.HasChanges) and the gateway     *)
(* behind the GitLabClient interface.                                      *)
(*                                                                         *)
(* Text is modelled as a sequence of one-character strings where the code  *)
(* inspects characters (titles, branch names) and as the tuple             *)
(* <<format, arg, ...>> where the code only builds it with fmt.Sprintf     *)
(* (details, error messages).  The empty string is <<>>.                   *)
(***************************************************************************)
EXTENDS Integers, Sequences, FiniteSets, TLC

VARIABLES
    config,     \* Service.config: OriginBranch, TargetBranch, Projects, Verbose
    gw,         \* the hosting platform behind Service.client: repository states by project id
    pc,         \* position of ProcessProjects: "running", "done" (returned), "crashed" (panicked);
                \* of the command around it: "flags", "fetching", "merging", "exited"
    idx,        \* index into config.Projects of the next entry of the range loop
    results,    \* ProcessProjects' results slice
    summary,    \* ProcessProjects' summary
    calls,      \* gateway calls made for the most recent list entry, in order
    found,      \* whether FindOpenMergeRequests answered the most recent entry, and with what list
    before,     \* the repository states when the most recent entry began
    fault,      \* the gateway misbehaviour the most recent entry met ("none" before any)
    verbose,    \* log lines written by the most recent entry
    createdOk,  \* per project id: the number of CreateMergeRequest calls that have succeeded
    runs,       \* number of ProcessProjects invocations begun
    ref,        \* for comparisons: the paths GetProject was asked for, and a second run of the
                \* same list against the same platform in which entry ref.at meets no failure
    cmd,        \* the command line being served: its flags, the pages of projects fetched,
                \* the exit code
    pool        \* for the worker-per-entry variant of ProcessProjects: each worker's
                \* position, the calls it has made, what it has heard of the platform,
                \* what it holds, and the slot it writes its result to

vars == <<config, gw, pc, idx, results, summary, calls, found, before, fault, verbose,
          createdOk, runs, ref, cmd, pool>>

-----------------------------------------------------------------------------
(* Bounds of the model *)

MaxProjects == 2    \* longest config.Projects
MaxOpen     == 2    \* longest list of open merge requests a repository starts with
MaxRuns     == 2    \* ProcessProjects invocations in one behaviour

-----------------------------------------------------------------------------
(* Text helpers *)

\* unicode.ToLower on one character.  The letters of the model are the ASCII
\* letters: a letter with a lower-case form outside ASCII is not in its alphabet.
LowerChar(c) ==
    CASE c = "A" -> "a" [] c = "B" -> "b" [] c = "C" -> "c" [] c = "D" -> "d"
      [] c = "E" -> "e" [] c = "F" -> "f" [] c = "G" -> "g" [] c = "H" -> "h"
      [] c = "I" -> "i" [] c = "J" -> "j" [] c = "K" -> "k" [] c = "L" -> "l"
      [] c = "M" -> "m" [] c = "N" -> "n" [] c = "O" -> "o" [] c = "P" -> "p"
      [] c = "Q" -> "q" [] c = "R" -> "r" [] c = "S" -> "s" [] c = "T" -> "t"
      [] c = "U" -> "u" [] c = "V" -> "v" [] c = "W" -> "w" [] c = "X" -> "x"
      [] c = "Y" -> "y" [] c = "Z" -> "z"
      [] OTHER -> c

ToLower(s) == [i \in 1..Len(s) |-> LowerChar(s[i])]

\* unicode.IsSpace: space, tab, line feed, vertical tab, form feed, carriage
\* return, U+0085, U+00A0 and U+1680.  The spaces U+2000 to U+200A, U+2028,
\* U+2029, U+202F, U+205F and U+3000 cannot be written in a string here and are
\* not in the alphabet of the model.
IsSpace(c) == c \in {" ", "\t", "\n", "", "\f", "\r", "", " ", " "}

RECURSIVE TrimLeft(_)
TrimLeft(s) == IF s # <<>> /\ IsSpace(Head(s)) THEN TrimLeft(Tail(s)) ELSE s

RECURSIVE TrimRight(_)
TrimRight(s) ==
    IF s # <<>> /\ IsSpace(s[Len(s)]) THEN TrimRight(SubSeq(s, 1, Len(s) - 1)) ELSE s

\* strings.TrimSpace
TrimSpace(s) == TrimRight(TrimLeft(s))

\* strings.HasPrefix
HasPrefix(s, p) == Len(s) >= Len(p) /\ SubSeq(s, 1, Len(p)) = p

DraftPrefix == <<"d", "r", "a", "f", "t", ":">>
WipPrefix   == <<"w", "i", "p", ":">>

-----------------------------------------------------------------------------
(* package gitlab: types *)

\* IsDraft that looks at the title as it is, surrounding whitespace included
IsDraft_NoTrim(mr) ==
    IF mr.Draft THEN TRUE
    ELSE LET titleLower == ToLower(mr.Title)
         IN  HasPrefix(titleLower, DraftPrefix) \/ HasPrefix(titleLower, WipPrefix)

\* MergeRequest.IsDraft
IsDraft(mr) ==
    IF mr.Draft THEN TRUE
    ELSE LET titleLower == ToLower(TrimSpace(mr.Title))
         IN  HasPrefix(titleLower, DraftPrefix) \/ HasPrefix(titleLower, WipPrefix)

\* HasChanges that counts an empty comparison as a change
HasChanges_Always(compare) == Len(compare.Commits) >= 0

\* Compare.HasChanges
HasChanges(compare) == Len(compare.Commits) > 0

-----------------------------------------------------------------------------
(* package bulkmr: constants and zero values *)

StatusCreated         == "CREATED"
StatusSkippedExists   == "SKIPPED_EXISTS"
StatusSkippedDraft    == "SKIPPED_DRAFT"
StatusSkippedBranch   == "SKIPPED_NO_BRANCH"
StatusSkippedNoChange == "SKIPPED_NO_CHANGE"
StatusError           == "ERROR"

Statuses == {StatusCreated, StatusSkippedExists, StatusSkippedDraft,
             StatusSkippedBranch, StatusSkippedNoChange, StatusError}

NoErr == <<>>       \* a nil error
Empty == <<>>       \* the empty string

\* ProjectResult{Project: projectPath}
NewResult(projectPath) ==
    [Project |-> projectPath, Status |-> "", MergeRequestID |-> 0, MergeRequestIID |-> 0,
     MergeRequestURL |-> Empty, ErrorMessage |-> Empty, Details |-> Empty]

\* Summary{Total: n}
NewSummary(n) ==
    [Total |-> n, Created |-> 0, SkippedExists |-> 0, SkippedDraft |-> 0,
     SkippedBranch |-> 0, SkippedNoChange |-> 0, Errors |-> 0]

-----------------------------------------------------------------------------
(* The gateway: what the GitLabClient interface lets the platform answer *)

Paths == {"g/a", "g/b"}

ProjectID(path) == IF path = "g/a" THEN 1 ELSE 2

ProjectIDs == {ProjectID(p) : p \in Paths}

\* What can go wrong in one reconciliation: the named call returns an error, or
\* (the ...Nil faults) returns no value and no error.  Calls before it answer
\* from the repository state.
ErrorFaults == {"GetProject", "BranchOrigin", "BranchTarget", "FindOpenMergeRequests",
                "CompareBranches", "CreateMergeRequest"}
NilFaults   == {"GetProjectNil", "CompareNil", "CreateNil"}
Faults      == {"none"} \cup ErrorFaults \cup NilFaults

ApiError == <<"API request failed with status %d: %s", 500, "boom">>

\* Client.GetProject
GwGetProject(g, projectPath, f) ==
    IF f = "GetProject"
    THEN [val |-> [isNil |-> TRUE, ID |-> 0],
          err |-> <<"failed to get project %s: %w", projectPath, ApiError>>]
    ELSE IF f = "GetProjectNil"
    THEN [val |-> [isNil |-> TRUE, ID |-> 0], err |-> NoErr]
    ELSE [val |-> [isNil |-> FALSE, ID |-> ProjectID(projectPath)], err |-> NoErr]

\* The misbehaviours of the platform at a branch check that answer with a status
\* other than 200 and 404
StatusFaults == {"BranchOrigin500", "BranchOrigin204", "BranchTarget500", "BranchTarget403"}

FaultStatus(f) ==
    CASE f = "BranchOrigin500" -> 500 [] f = "BranchOrigin204" -> 204
      [] f = "BranchTarget500" -> 500 [] f = "BranchTarget403" -> 403

FaultBranch(f) ==
    IF f \in {"BranchOrigin", "BranchOrigin500", "BranchOrigin204"} THEN "origin"
    ELSE IF f \in {"BranchTarget", "BranchTarget500", "BranchTarget403"} THEN "target"
    ELSE ""

TransportError == <<"HTTP request failed: %w", "connection refused">>

\* What makeRequest returns for GET .../repository/branches/<branch>: no response
\* and an error, or a response with its status and body
BranchResponse(g, projectID, which, f) ==
    IF FaultBranch(f) = which
    THEN IF f \in StatusFaults
         THEN [err |-> NoErr, StatusCode |-> FaultStatus(f), body |-> "boom"]
         ELSE [err |-> TransportError, StatusCode |-> 0, body |-> ""]
    ELSE IF (IF which = "origin" THEN g[projectID].origin ELSE g[projectID].target)
    THEN [err |-> NoErr, StatusCode |-> 200, body |-> "{}"]
    ELSE [err |-> NoErr, StatusCode |-> 404, body |-> "404 Branch Not Found"]

\* BranchExists that takes a 404 for a failure like any other status
BranchExists_NotFoundIsError(resp, branchName) ==
    IF resp.err # NoErr
    THEN [val |-> FALSE, err |-> <<"failed to check branch %s: %w", branchName, resp.err>>]
    ELSE IF resp.StatusCode # 200
    THEN [val |-> FALSE,
          err |-> <<"unexpected status %d: %s", resp.StatusCode, resp.body>>]
    ELSE [val |-> TRUE, err |-> NoErr]

\* Client.BranchExists, from the response of makeRequest on
BranchExists(resp, branchName) ==
    IF resp.err # NoErr
    THEN [val |-> FALSE, err |-> <<"failed to check branch %s: %w", branchName, resp.err>>]
    ELSE IF resp.StatusCode = 404
    THEN [val |-> FALSE, err |-> NoErr]
    ELSE IF resp.StatusCode # 200
    THEN [val |-> FALSE,
          err |-> <<"unexpected status %d: %s", resp.StatusCode, resp.body>>]
    ELSE [val |-> TRUE, err |-> NoErr]

\* BranchExists that reports every branch present
GwBranchExists_AlwaysTrue(g, projectID, which, branch, f) ==
    IF FaultBranch(f) = which
    THEN BranchExists(BranchResponse(g, projectID, which, f), branch)
    ELSE [val |-> TRUE, err |-> NoErr]

\* Client.BranchExists against the platform; which is "origin" or "target"
GwBranchExists(g, projectID, which, branch, f) ==
    BranchExists(BranchResponse(g, projectID, which, f), branch)

\* Client.FindOpenMergeRequests
GwFindOpenMergeRequests(g, projectID, f) ==
    IF f = "FindOpenMergeRequests"
    THEN [val |-> <<>>, err |-> <<"failed to find merge requests: %w", ApiError>>]
    ELSE [val |-> g[projectID].mrs, err |-> NoErr]

\* Client.CompareBranches
GwCompareBranches(g, projectID, f) ==
    IF f = "CompareBranches"
    THEN [val |-> [isNil |-> TRUE, Commits |-> <<>>],
          err |-> <<"failed to compare branches: %w", ApiError>>]
    ELSE IF f = "CompareNil"
    THEN [val |-> [isNil |-> TRUE, Commits |-> <<>>], err |-> NoErr]
    ELSE [val |-> [isNil |-> FALSE,
                   Commits |-> [i \in 1..g[projectID].commits |-> <<"commit", i>>]],
          err |-> NoErr]

\* The merge request the platform makes of a create call: the next display number
\* of the repository, not a draft, titled as asked.
NewMergeRequest(g, projectID, title) ==
    LET iid == Len(g[projectID].mrs) + 1
    IN  [ID |-> 100 * projectID + iid, IID |-> iid, Title |-> title,
         WebURL |-> <<"mr", projectID, iid>>, Draft |-> FALSE]

\* CreateMergeRequest on a platform where a merge request opened in one
\* repository is listed as open in every repository
GwCreateMergeRequest_Shared(g, projectID, title, f) ==
    IF f = "CreateMergeRequest"
    THEN [val |-> [isNil |-> TRUE, mr |-> NewMergeRequest(g, projectID, title)], gw |-> g,
          err |-> <<"failed to create merge request: %w", ApiError>>]
    ELSE IF f = "CreateNil"
    THEN [val |-> [isNil |-> TRUE, mr |-> NewMergeRequest(g, projectID, title)], gw |-> g,
          err |-> NoErr]
    ELSE LET mr == NewMergeRequest(g, projectID, title)
         IN  [val |-> [isNil |-> FALSE, mr |-> mr],
              gw  |-> [id \in DOMAIN g |-> [g[id] EXCEPT !.mrs = <<mr>> \o @]],
              err |-> NoErr]

\* Client.CreateMergeRequest; the platform lists what it created as open
GwCreateMergeRequest(g, projectID, title, f) ==
    IF f = "CreateMergeRequest"
    THEN [val |-> [isNil |-> TRUE, mr |-> NewMergeRequest(g, projectID, title)], gw |-> g,
          err |-> <<"failed to create merge request: %w", ApiError>>]
    ELSE IF f = "CreateNil"
    THEN [val |-> [isNil |-> TRUE, mr |-> NewMergeRequest(g, projectID, title)], gw |-> g,
          err |-> NoErr]
    ELSE LET mr == NewMergeRequest(g, projectID, title)
         IN  [val |-> [isNil |-> FALSE, mr |-> mr],
              gw  |-> [g EXCEPT ![projectID].mrs = <<mr>> \o @],
              err |-> NoErr]

-----------------------------------------------------------------------------
\* package bulkmr: Service.processProject (the single quotes of the two branch
\* details are written as angle brackets)

MergePrefix == <<"M", "e", "r", "g", "e", " ">>
IntoInfix   == <<" ", "i", "n", "t", "o", " ">>

\* fmt.Sprintf("Merge %s into %s", origin, target)
MergeTitle(origin, target) == MergePrefix \o origin \o IntoInfix \o target

\* fmt.Sprintf("This merge request was created automatically ...", origin, target),
\* without the backquotes around the two branch names
MergeDescription(origin, target) ==
    <<"This merge request was created automatically by gitlab-tools.\n\n**Source Branch**: %s\n**Target Branch**: %s",
      origin, target>>

NoDraft == [isNil |-> TRUE, mr |-> [ID |-> 0, IID |-> 0, Title |-> Empty, WebURL |-> Empty,
                                    Draft |-> FALSE]]

\* ScanExisting without the break: it goes on after a merge request that is not a draft
RECURSIVE ScanExisting_NoBreak(_, _, _, _)
ScanExisting_NoBreak(existingMRs, i, result, draftMR) ==
    IF i > Len(existingMRs)
    THEN [hasNonDraft |-> result.Status = StatusSkippedExists, result |-> result,
          draftMR |-> draftMR]
    ELSE LET mr == existingMRs[i]
         IN  IF ~IsDraft(mr)
             THEN ScanExisting_NoBreak(existingMRs, i + 1,
                      [result EXCEPT
                          !.Status = StatusSkippedExists,
                          !.MergeRequestID = mr.ID,
                          !.MergeRequestIID = mr.IID,
                          !.MergeRequestURL = mr.WebURL,
                          !.Details = <<"Open MR already exists: !%d", mr.IID>>],
                      draftMR)
             ELSE ScanExisting_NoBreak(existingMRs, i + 1, result,
                                       [isNil |-> FALSE, mr |-> mr])

\* ScanExisting that keeps the first draft it sees instead of the latest
RECURSIVE ScanExisting_FirstDraft(_, _, _, _)
ScanExisting_FirstDraft(existingMRs, i, result, draftMR) ==
    IF i > Len(existingMRs)
    THEN [hasNonDraft |-> FALSE, result |-> result, draftMR |-> draftMR]
    ELSE LET mr == existingMRs[i]
         IN  IF ~IsDraft(mr)
             THEN [hasNonDraft |-> TRUE,
                   result |-> [result EXCEPT
                       !.Status = StatusSkippedExists,
                       !.MergeRequestID = mr.ID,
                       !.MergeRequestIID = mr.IID,
                       !.MergeRequestURL = mr.WebURL,
                       !.Details = <<"Open MR already exists: !%d", mr.IID>>],
                   draftMR |-> draftMR]
             ELSE ScanExisting_FirstDraft(existingMRs, i + 1, result,
                      IF draftMR.isNil THEN [isNil |-> FALSE, mr |-> mr] ELSE draftMR)

\* The loop over existingMRs from index i on: stops at the first merge request that
\* is not a draft, else remembers the draft it has just seen.
RECURSIVE ScanExisting(_, _, _, _)
ScanExisting(existingMRs, i, result, draftMR) ==
    IF i > Len(existingMRs)
    THEN [hasNonDraft |-> FALSE, result |-> result, draftMR |-> draftMR]
    ELSE LET mr == existingMRs[i]
         IN  IF ~IsDraft(mr)
             THEN [hasNonDraft |-> TRUE,
                   result |-> [result EXCEPT
                       !.Status = StatusSkippedExists,
                       !.MergeRequestID = mr.ID,
                       !.MergeRequestIID = mr.IID,
                       !.MergeRequestURL = mr.WebURL,
                       !.Details = <<"Open MR already exists: !%d", mr.IID>>],
                   draftMR |-> draftMR]
             ELSE ScanExisting(existingMRs, i + 1, result, [isNil |-> FALSE, mr |-> mr])

\* ClassifyExisting without the draft branch
ClassifyExisting_NoDraftCase(existingMRs, result) ==
    ScanExisting(existingMRs, 1, result, NoDraft).result

\* ClassifyExisting where a draft seen before the first non-draft takes over
ClassifyExisting_DraftOverrides(existingMRs, result) ==
    LET scan == ScanExisting(existingMRs, 1, result, NoDraft)
    IN  IF ~scan.draftMR.isNil
        THEN [scan.result EXCEPT
                 !.Status = StatusSkippedDraft,
                 !.MergeRequestID = scan.draftMR.mr.ID,
                 !.MergeRequestIID = scan.draftMR.mr.IID,
                 !.MergeRequestURL = scan.draftMR.mr.WebURL,
                 !.Details = <<"Draft MR exists: !%d (%s)", scan.draftMR.mr.IID,
                               scan.draftMR.mr.Title>>]
        ELSE scan.result

\* The branch taken when len(existingMRs) > 0
ClassifyExisting(existingMRs, result) ==
    LET scan == ScanExisting(existingMRs, 1, result, NoDraft)
    IN  IF ~scan.hasNonDraft /\ ~scan.draftMR.isNil
        THEN [scan.result EXCEPT
                 !.Status = StatusSkippedDraft,
                 !.MergeRequestID = scan.draftMR.mr.ID,
                 !.MergeRequestIID = scan.draftMR.mr.IID,
                 !.MergeRequestURL = scan.draftMR.mr.WebURL,
                 !.Details = <<"Draft MR exists: !%d (%s)", scan.draftMR.mr.IID,
                               scan.draftMR.mr.Title>>]
        ELSE scan.result

\* What one call of processProject leaves behind: the result it returns (when it
\* does not panic), the gateway calls it made, the lines it logged, what the
\* open-merge-request query gave it and the state of the platform afterwards.
Outcome(result, panicked, callsMade, logged, existing, g) ==
    [result |-> result, panicked |-> panicked, calls |-> callsMade, log |-> logged,
     found |-> existing, gw |-> g]

\* The open-merge-request query did not answer (not reached, or it failed) / answered
NotFound == [answered |-> FALSE, list |-> <<>>]
Found(list) == [answered |-> TRUE, list |-> list]

\* Wrap that drops the context and keeps the gateway error alone
Wrap_Bare(context, err) == err

\* fmt.Sprintf(context, err): the gateway error under a line naming the operation
Wrap(context, err) == <<context, err>>

\* ErrorResult that also copies the message into Details
ErrorResult_WithDetails(result, message) ==
    [result EXCEPT !.Status = StatusError, !.ErrorMessage = message, !.Details = message]

\* ErrorResult that sets the message and forgets the status
ErrorResult_NoStatus(result, message) == [result EXCEPT !.ErrorMessage = message]

\* result.Status = StatusError; result.ErrorMessage = message
ErrorResult(result, message) ==
    [result EXCEPT !.Status = StatusError, !.ErrorMessage = message]

LogIf(cfg, logged, line) == IF cfg.Verbose THEN Append(logged, line) ELSE logged

\* CreatedResult that takes the display number for the id
CreatedResult_IIDForID(result, mr) ==
    [result EXCEPT
        !.Status = StatusCreated,
        !.MergeRequestID = mr.IID,
        !.MergeRequestIID = mr.IID,
        !.MergeRequestURL = mr.WebURL,
        !.Details = <<"MR !%d: %s", mr.IID, mr.WebURL>>]

\* The result after CreateMergeRequest returned mr
CreatedResult(result, mr) ==
    [result EXCEPT
        !.Status = StatusCreated,
        !.MergeRequestID = mr.ID,
        !.MergeRequestIID = mr.IID,
        !.MergeRequestURL = mr.WebURL,
        !.Details = <<"MR !%d: %s", mr.IID, mr.WebURL>>]

\* The creation of the merge request (reached with commits to merge)
Create(cfg, g, f, result, projectID, callsMade, logged) ==
    LET title == MergeTitle(cfg.OriginBranch, cfg.TargetBranch)
        description == MergeDescription(cfg.OriginBranch, cfg.TargetBranch)
        c6 == Append(callsMade, <<"CreateMergeRequest", projectID, cfg.OriginBranch,
                                  cfg.TargetBranch, title, description>>)
        made == GwCreateMergeRequest(g, projectID, title, f)
    IN  IF made.err # NoErr
        THEN Outcome(ErrorResult(result,
                                 <<"failed to create merge request: %v", made.err>>),
                     FALSE, c6, logged, Found(<<>>), made.gw)
        ELSE IF made.val.isNil
        THEN Outcome(result, TRUE, c6, logged, Found(<<>>), made.gw)
        ELSE Outcome(CreatedResult(result, made.val.mr),
                     FALSE, c6, logged, Found(<<>>), made.gw)

\* From the comparison on (reached with no open merge request)
CompareAndCreate(cfg, g, f, result, projectID, callsMade, logged) ==
    LET l3 == LogIf(cfg, logged, <<"[%s] Comparing branches...", result.Project>>)
        c5 == Append(callsMade,
                     <<"CompareBranches", projectID, cfg.OriginBranch, cfg.TargetBranch>>)
        compare == GwCompareBranches(g, projectID, f)
    IN  IF compare.err # NoErr
        THEN Outcome(ErrorResult(result, Wrap("failed to compare branches: %v", compare.err)),
                     FALSE, c5, l3, Found(<<>>), g)
        ELSE IF compare.val.isNil
        THEN Outcome(result, TRUE, c5, l3, Found(<<>>), g)
        ELSE IF ~HasChanges(compare.val)
        THEN Outcome([result EXCEPT
                          !.Status = StatusSkippedNoChange,
                          !.Details = <<"No changes between %s and %s",
                                        cfg.OriginBranch, cfg.TargetBranch>>],
                     FALSE, c5, l3, Found(<<>>), g)
        ELSE
        LET l4 == LogIf(cfg, l3,
                        <<"[%s] Found %d commit(s) with changes, creating merge request...",
                          result.Project, Len(compare.val.Commits)>>)
        IN  Create(cfg, g, f, result, projectID, c5, l4)

\* FindAndDecide with the comparison made before the open-merge-request query
FindAndDecide_CompareFirst(cfg, g, f, result, projectID, callsMade, logged) ==
    LET c4 == Append(callsMade,
                     <<"CompareBranches", projectID, cfg.OriginBranch, cfg.TargetBranch>>)
        compare == GwCompareBranches(g, projectID, f)
        c5 == Append(c4, <<"FindOpenMergeRequests", projectID, cfg.OriginBranch,
                           cfg.TargetBranch>>)
        existing == GwFindOpenMergeRequests(g, projectID, f)
    IN  IF compare.err # NoErr
        THEN Outcome(ErrorResult(result, Wrap("failed to compare branches: %v", compare.err)),
                     FALSE, c4, logged, NotFound, g)
        ELSE IF existing.err # NoErr
        THEN Outcome(ErrorResult(result, Wrap("failed to find existing merge requests: %v", existing.err)),
                     FALSE, c5, logged, NotFound, g)
        ELSE IF Len(existing.val) > 0
        THEN Outcome(ClassifyExisting(existing.val, result), FALSE, c5, logged,
                     Found(existing.val), g)
        ELSE CompareAndCreate(cfg, g, f, result, projectID, c5, logged)

\* FindAndDecide without the return on an existing merge request
FindAndDecide_NoSkip(cfg, g, f, result, projectID, callsMade, logged) ==
    LET c4 == Append(callsMade,
                     <<"FindOpenMergeRequests", projectID, cfg.OriginBranch, cfg.TargetBranch>>)
        existing == GwFindOpenMergeRequests(g, projectID, f)
    IN  IF existing.err # NoErr
        THEN Outcome(ErrorResult(result, Wrap("failed to find existing merge requests: %v", existing.err)),
                     FALSE, c4, logged, NotFound, g)
        ELSE LET o == CompareAndCreate(cfg, g, f, result, projectID, c4, logged)
             IN  [o EXCEPT !.found = Found(existing.val)]

\* FindAndDecide that repeats a failed query once and goes on after it
FindAndDecide_Retry(cfg, g, f, result, projectID, callsMade, logged) ==
    LET l2 == LogIf(cfg, logged, <<"[%s] Checking existing merge requests...", result.Project>>)
        c4 == Append(callsMade,
                     <<"FindOpenMergeRequests", projectID, cfg.OriginBranch, cfg.TargetBranch>>)
        existing == GwFindOpenMergeRequests(g, projectID, f)
    IN  IF existing.err # NoErr
        THEN LET again == GwFindOpenMergeRequests(g, projectID, "none")
                 c4b == Append(c4, c4[Len(c4)])
             IN  IF Len(again.val) > 0
                 THEN Outcome(ClassifyExisting(again.val, result), FALSE, c4b, l2,
                              Found(again.val), g)
                 ELSE CompareAndCreate(cfg, g, "none", result, projectID, c4b, l2)
        ELSE IF Len(existing.val) > 0
        THEN Outcome(ClassifyExisting(existing.val, result), FALSE, c4, l2, Found(existing.val), g)
        ELSE CompareAndCreate(cfg, g, f, result, projectID, c4, l2)

\* FindAndDecide with the open-merge-request query inside the verbose block
FindAndDecide_QueryWhenVerbose(cfg, g, f, result, projectID, callsMade, logged) ==
    IF ~cfg.Verbose
    THEN CompareAndCreate(cfg, g, f, result, projectID, callsMade, logged)
    ELSE
    LET l2 == LogIf(cfg, logged, <<"[%s] Checking existing merge requests...", result.Project>>)
        c4 == Append(callsMade,
                     <<"FindOpenMergeRequests", projectID, cfg.OriginBranch, cfg.TargetBranch>>)
        existing == GwFindOpenMergeRequests(g, projectID, f)
    IN  IF existing.err # NoErr
        THEN Outcome(ErrorResult(result, Wrap("failed to find existing merge requests: %v", existing.err)),
                     FALSE, c4, l2, NotFound, g)
        ELSE IF Len(existing.val) > 0
        THEN Outcome(ClassifyExisting(existing.val, result), FALSE, c4, l2, Found(existing.val), g)
        ELSE CompareAndCreate(cfg, g, f, result, projectID, c4, l2)

\* From the open-merge-request query on (reached with both branches present)
FindAndDecide(cfg, g, f, result, projectID, callsMade, logged) ==
    LET l2 == LogIf(cfg, logged, <<"[%s] Checking existing merge requests...", result.Project>>)
        c4 == Append(callsMade,
                     <<"FindOpenMergeRequests", projectID, cfg.OriginBranch, cfg.TargetBranch>>)
        existing == GwFindOpenMergeRequests(g, projectID, f)
    IN  IF existing.err # NoErr
        THEN Outcome(ErrorResult(result, Wrap("failed to find existing merge requests: %v", existing.err)),
                     FALSE, c4, l2, NotFound, g)
        ELSE IF Len(existing.val) > 0
        THEN Outcome(ClassifyExisting(existing.val, result), FALSE, c4, l2, Found(existing.val), g)
        ELSE CompareAndCreate(cfg, g, f, result, projectID, c4, l2)

\* SkipNoBranch that blames the target branch whichever check failed
SkipNoBranch_AlwaysTarget(result, which, branch) ==
    [result EXCEPT
        !.Status = StatusSkippedBranch,
        !.Details = <<"Target branch <%s> does not exist", branch>>]

\* The result when the checked branch (which: "origin" or "target") does not exist
SkipNoBranch(result, which, branch) ==
    [result EXCEPT
        !.Status = StatusSkippedBranch,
        !.Details = IF which = "origin"
                    THEN <<"Origin branch <%s> does not exist", branch>>
                    ELSE <<"Target branch <%s> does not exist", branch>>]

\* Service.processProject
processProject(cfg, g, f, projectPath) ==
    LET result == NewResult(projectPath)
        c1 == <<<<"GetProject", projectPath>>>>
        project == GwGetProject(g, projectPath, f)
    IN  IF project.err # NoErr
        THEN Outcome(ErrorResult(result, project.err), FALSE, c1, <<>>, NotFound, g)
        ELSE
        LET l1 == LogIf(cfg, <<>>, <<"[%s] Checking branches...", projectPath>>)
        IN  IF project.val.isNil
        THEN Outcome(result, TRUE, c1, l1, NotFound, g)
        ELSE
        LET id == project.val.ID
            c2 == Append(c1, <<"BranchExists", id, cfg.OriginBranch>>)
            originExists == GwBranchExists(g, id, "origin", cfg.OriginBranch, f)
        IN  IF originExists.err # NoErr
            THEN Outcome(ErrorResult(result, Wrap("failed to check origin branch: %v", originExists.err)),
                         FALSE, c2, l1, NotFound, g)
            ELSE IF ~originExists.val
            THEN Outcome(SkipNoBranch(result, "origin", cfg.OriginBranch),
                         FALSE, c2, l1, NotFound, g)
            ELSE
            LET c3 == Append(c2, <<"BranchExists", id, cfg.TargetBranch>>)
                targetExists == GwBranchExists(g, id, "target", cfg.TargetBranch, f)
            IN  IF targetExists.err # NoErr
                THEN Outcome(ErrorResult(result, Wrap("failed to check target branch: %v", targetExists.err)),
                             FALSE, c3, l1, NotFound, g)
                ELSE IF ~targetExists.val
                THEN Outcome(SkipNoBranch(result, "target", cfg.TargetBranch),
                             FALSE, c3, l1, NotFound, g)
                ELSE FindAndDecide(cfg, g, f, result, id, c3, l1)

-----------------------------------------------------------------------------
(* package bulkmr: Service.ProcessProjects *)

\* Tally with no case for drafts
Tally_NoDraft(sum, status) ==
    CASE status = StatusCreated         -> [sum EXCEPT !.Created = @ + 1]
      [] status = StatusSkippedExists   -> [sum EXCEPT !.SkippedExists = @ + 1]
      [] status = StatusSkippedBranch   -> [sum EXCEPT !.SkippedBranch = @ + 1]
      [] status = StatusSkippedNoChange -> [sum EXCEPT !.SkippedNoChange = @ + 1]
      [] status = StatusError           -> [sum EXCEPT !.Errors = @ + 1]
      [] OTHER                          -> sum

\* The switch on result.Status
Tally(sum, status) ==
    CASE status = StatusCreated         -> [sum EXCEPT !.Created = @ + 1]
      [] status = StatusSkippedExists   -> [sum EXCEPT !.SkippedExists = @ + 1]
      [] status = StatusSkippedDraft    -> [sum EXCEPT !.SkippedDraft = @ + 1]
      [] status = StatusSkippedBranch   -> [sum EXCEPT !.SkippedBranch = @ + 1]
      [] status = StatusSkippedNoChange -> [sum EXCEPT !.SkippedNoChange = @ + 1]
      [] status = StatusError           -> [sum EXCEPT !.Errors = @ + 1]
      [] OTHER                          -> sum

\* The merge requests a run of processProject added to the platform, per project
CreatedBy(g, after) == [id \in ProjectIDs |-> Len(after[id].mrs) - Len(g[id].mrs)]

\* No command line: ProcessProjects alone
NoCmd == [name |-> ""]

\* No workers: the range loop of ProcessProjects
NoPool == [on |-> FALSE]

NoRef == [on |-> FALSE, at |-> 0, gw |-> <<>>, results |-> <<>>, attempted |-> <<>>]

\* AppendResult that keeps one result per project path
AppendResult_Dedup(list, result) ==
    IF \E i \in 1..Len(list) : list[i].Project = result.Project THEN list
    ELSE Append(list, result)

\* results = append(results, result)
AppendResult(list, result) == Append(list, result)

\* One iteration of the range loop with the gateway misbehaving as f says:
\* processProject, append, count.  A panic in processProject ends
\* ProcessProjects without a return value.
Iteration(f) ==
    LET o == processProject(config, gw, f, config.Projects[idx])
        made == CreatedBy(gw, o.gw)
    IN  /\ gw' = o.gw
        /\ calls' = o.calls
        /\ found' = o.found
        /\ verbose' = o.log
        /\ fault' = f
        /\ before' = [gw |-> gw, createdOk |-> createdOk, path |-> config.Projects[idx]]
        /\ createdOk' = [id \in ProjectIDs |-> createdOk[id] + made[id]]
        /\ IF o.panicked
           THEN /\ pc' = "crashed"
                /\ UNCHANGED <<idx, results, summary>>
           ELSE /\ pc' = pc
                /\ idx' = idx + 1
                /\ results' = AppendResult(results, o.result)
                /\ summary' = Tally(summary, o.result.Status)

ProcessNext ==
    /\ pc = "running"
    /\ idx <= Len(config.Projects)
    /\ \E f \in Faults : Iteration(f)
    /\ UNCHANGED <<config, runs, ref, cmd, pool>>

\* One iteration of the loop in the run and in the reference run next to it.  Both
\* meet the same gateway errors, except that the run meets one at entry ref.at
\* and the reference run does not.
ProcessNextBoth ==
    /\ pc = "running"
    /\ idx <= Len(config.Projects)
    /\ ref.on
    /\ \E f \in {"none"} \cup ErrorFaults :
          /\ idx = ref.at => f # "none"
          /\ Iteration(f)
          /\ LET o == processProject(config, ref.gw, IF idx = ref.at THEN "none" ELSE f,
                                     config.Projects[idx])
             IN  ref' = [ref EXCEPT !.gw = o.gw,
                                    !.results = AppendResult(@, o.result),
                                    !.attempted = Append(@, calls'[1][2])]
    /\ UNCHANGED <<config, runs, cmd, pool>>

\* Return that also leaves the loop after an ERROR result
Return_OnError ==
    /\ pc = "running"
    /\ \/ idx > Len(config.Projects)
       \/ results # <<>> /\ results[Len(results)].Status = StatusError
    /\ pc' = "done"
    /\ UNCHANGED <<config, gw, idx, results, summary, calls, found, before, fault, verbose,
                   createdOk, runs, ref, cmd, pool>>

\* The loop is over: return results, summary
Return ==
    /\ pc = "running"
    /\ idx > Len(config.Projects)
    /\ pc' = "done"
    /\ UNCHANGED <<config, gw, idx, results, summary, calls, found, before, fault, verbose,
                   createdOk, runs, ref, cmd, pool>>

ProjectLists == UNION {[1..n -> Paths] : n \in 1..MaxProjects}

\* The command is run again: NewService and a fresh ProcessProjects against the
\* same platform
Rerun ==
    /\ pc = "done"
    /\ runs < MaxRuns
    /\ \E projects \in ProjectLists :
          /\ config' = [config EXCEPT !.Projects = projects]
          /\ summary' = NewSummary(Len(projects))
    /\ pc' = "running"
    /\ idx' = 1
    /\ results' = <<>>
    /\ calls' = <<>>
    /\ found' = NotFound
    /\ verbose' = <<>>
    /\ fault' = "none"
    /\ before' = [gw |-> gw, createdOk |-> createdOk, path |-> ""]
    /\ runs' = runs + 1
    /\ UNCHANGED <<gw, createdOk, ref, cmd, pool>>

-----------------------------------------------------------------------------
(* Initial states *)

OriginBranch == <<"s", "t", "g">>
TargetBranch == <<"r", "c">>

\* The merge requests a repository may already have open for the pair: not a
\* draft, a draft by its flag, a draft by its title (two spellings), and one that
\* only mentions the word
TitleDraft   == <<"D", "r", "a", "f", "t", ":", " ", "x">>
TitleWip     == <<" ", "W", "I", "P", ":", "y">>
TitleMention == <<"a", " ", "D", "r", "a", "f", "t">>

OpenKinds ==
    {[Title |-> MergeTitle(OriginBranch, TargetBranch), Draft |-> FALSE],
     [Title |-> MergeTitle(OriginBranch, TargetBranch), Draft |-> TRUE],
     [Title |-> TitleDraft, Draft |-> FALSE],
     [Title |-> TitleWip, Draft |-> FALSE],
     [Title |-> TitleMention, Draft |-> FALSE]}

\* The i-th open merge request of project id, of the given kind
OpenMR(id, i, kind) ==
    [ID |-> 100 * id + i, IID |-> i, Title |-> kind.Title,
     WebURL |-> <<"mr", id, i>>, Draft |-> kind.Draft]

OpenLists(id) ==
    UNION {{[i \in 1..n |-> OpenMR(id, i, ks[i])] : ks \in [1..n -> OpenKinds]} : n \in 0..MaxOpen}

CommitCounts == {0, 1, 2}

\* Every repository state of the bounds
AllRepos(id) ==
    [origin : BOOLEAN, target : BOOLEAN, commits : CommitCounts, mrs : OpenLists(id)]

\* A repository ready for a merge request: both branches, a commit to merge, nothing open
ReadyRepo == [origin |-> TRUE, target |-> TRUE, commits |-> 1, mrs |-> <<>>]

\* The repository states the runs over several projects start from: ready; the
\* origin branch deleted under an open merge request; nothing to merge; a draft
\* open; a draft and a merge request that is not a draft open
RunRepos(id) ==
    {ReadyRepo,
     [ReadyRepo EXCEPT !.origin = FALSE,
                       !.mrs = <<OpenMR(id, 1, [Title |-> TitleMention, Draft |-> FALSE])>>],
     [ReadyRepo EXCEPT !.commits = 0],
     [ReadyRepo EXCEPT !.mrs = <<OpenMR(id, 1, [Title |-> TitleDraft, Draft |-> FALSE])>>],
     [ReadyRepo EXCEPT !.mrs = <<OpenMR(id, 1, [Title |-> TitleWip, Draft |-> FALSE]),
                                 OpenMR(id, 2, [Title |-> TitleMention, Draft |-> FALSE])>>]}

InitCommon(projects, isVerbose) ==
    /\ config = [OriginBranch |-> OriginBranch, TargetBranch |-> TargetBranch,
                 Projects |-> projects, Verbose |-> isVerbose]
    /\ pc = "running"
    /\ idx = 1
    /\ results = <<>>
    /\ summary = NewSummary(Len(projects))
    /\ calls = <<>>
    /\ found = NotFound
    /\ verbose = <<>>
    /\ fault = "none"
    /\ createdOk = [id \in ProjectIDs |-> 0]
    /\ before = [gw |-> gw, createdOk |-> createdOk, path |-> ""]
    /\ runs = 1

\* Runs of the command over lists of projects, repeated
Init ==
    /\ \E r1 \in RunRepos(1), r2 \in RunRepos(2) :
          gw = [id \in ProjectIDs |-> IF id = 1 THEN r1 ELSE r2]
    /\ \E projects \in ProjectLists : InitCommon(projects, FALSE)
    /\ ref = NoRef
    /\ cmd = NoCmd
    /\ pool = NoPool

Next == ProcessNext \/ Return \/ Rerun

Spec == Init /\ [][Next]_vars

\* A run over a list of projects next to its reference run
InitTwin ==
    /\ \E r1 \in RunRepos(1), r2 \in RunRepos(2) :
          gw = [id \in ProjectIDs |-> IF id = 1 THEN r1 ELSE r2]
    /\ \E projects \in ProjectLists :
          /\ InitCommon(projects, FALSE)
          /\ \E at \in 1..Len(projects) :
                ref = [on |-> TRUE, at |-> at, gw |-> gw, results |-> <<>>,
                       attempted |-> <<>>]
    /\ cmd = NoCmd
    /\ pool = NoPool

NextTwin == ProcessNextBoth \/ Return

SpecTwin == InitTwin /\ [][NextTwin]_vars

\* One reconciliation of one repository, from every repository state
InitOne ==
    /\ \E r1 \in AllRepos(1) :
          gw = [id \in ProjectIDs |-> IF id = 1 THEN r1 ELSE ReadyRepo]
    /\ \E isVerbose \in BOOLEAN : InitCommon(<<"g/a">>, isVerbose)
    /\ ref = NoRef
    /\ cmd = NoCmd
    /\ pool = NoPool

NextOne == ProcessNext \/ Return

SpecOne == InitOne /\ [][NextOne]_vars

\* One iteration of the loop of ProcessProjects in which the platform may fail a
\* branch check, in transport or with a status
ProcessNextHttp ==
    /\ pc = "running"
    /\ idx <= Len(config.Projects)
    /\ \E f \in {"none", "BranchOrigin", "BranchTarget"} \cup StatusFaults : Iteration(f)
    /\ UNCHANGED <<config, runs, ref, cmd, pool>>

NextHttp == ProcessNextHttp \/ Return

\* One reconciliation of one repository, from every repository state, seen from
\* the responses to the branch checks
SpecHttp == InitOne /\ [][NextHttp]_vars

-----------------------------------------------------------------------------
(* processProject called by one worker per list entry *)

\* The gateway behaviours the entries of such a run meet
PoolFaults == {"none", "FindOpenMergeRequests", "CreateMergeRequest", "GetProjectNil",
               "CreateNil"}

\* The range loop of ProcessProjects from entry i on, entry j meeting faults[j].
\* A panic in processProject ends it: nothing is returned.
RECURSIVE RangeLoop(_, _, _, _, _)
RangeLoop(cfg, g, faults, i, acc) ==
    IF i > Len(cfg.Projects)
    THEN acc
    ELSE LET o == processProject(cfg, g, faults[i], cfg.Projects[i])
         IN  IF o.panicked
             THEN [acc EXCEPT !.panicked = TRUE, !.gw = o.gw]
             ELSE RangeLoop(cfg, o.gw, faults, i + 1,
                            [results |-> AppendResult(acc.results, o.result),
                             summary |-> Tally(acc.summary, o.result.Status),
                             gw |-> o.gw, panicked |-> FALSE])

\* Service.ProcessProjects: what it returns (nothing when panicked) and the
\* platform it leaves
ProcessProjects(cfg, g, faults) ==
    RangeLoop(cfg, g, faults, 1,
              [results |-> <<>>, summary |-> NewSummary(Len(cfg.Projects)), gw |-> g,
               panicked |-> FALSE])

\* The counters, from the slots: the switch on result.Status over each in turn
RECURSIVE Reduce(_, _)
Reduce(sum, slots) ==
    IF slots = <<>> THEN sum ELSE Reduce(Tally(sum, Head(slots).Status), Tail(slots))

\* Every worker is handed the entry the loop variable held last
WorkerEntry_LastOfLoop(cfg, i) == cfg.Projects[Len(cfg.Projects)]

\* The entry worker i is handed: the i-th of the list, as the range loop hands
\* the i-th to the i-th call of processProject
WorkerEntry(cfg, i) == cfg.Projects[i]

\* What a worker knows of the platform after the answer to its n-th call, a
\* call before CreateMergeRequest, made on platform g: what it knew, and what
\* that call reads
Heard(view, g, call, n) ==
    LET id == call[2]
    IN  CASE call[1] = "GetProject"            -> view
          [] call[1] = "BranchExists" /\ n = 2 -> [view EXCEPT ![id].origin = g[id].origin]
          [] call[1] = "BranchExists" /\ n = 3 -> [view EXCEPT ![id].target = g[id].target]
          [] call[1] = "FindOpenMergeRequests" -> [view EXCEPT ![id].mrs = g[id].mrs]
          [] call[1] = "CompareBranches"       -> [view EXCEPT ![id].commits = g[id].commits]

\* Worker i makes the next gateway call of processProject for its entry, a call
\* before CreateMergeRequest, and goes on to the point where it makes another
\* call or returns.  Other workers run between its calls.  A panic of a worker
\* ends the program.
Look(i) ==
    /\ pool.on
    /\ pc = "running"
    /\ pool.at[i] = "calling"
    /\ LET n == pool.made[i] + 1
           sofar == processProject(config, pool.view[i], pool.faults[i], WorkerEntry(config, i))
           heard == Heard(pool.view[i], gw, sofar.calls[n], n)
           o == processProject(config, heard, pool.faults[i], WorkerEntry(config, i))
           seen == [pool EXCEPT !.made[i] = n, !.view[i] = heard]
       IN  IF Len(o.calls) > n /\ o.calls[n + 1][1] = "CreateMergeRequest"
           THEN /\ pool' = [seen EXCEPT
                               !.at[i] = "create",
                               !.held[i] = [projectID |-> o.calls[n + 1][2],
                                            calls |-> SubSeq(o.calls, 1, n),
                                            log |-> o.log]]
                /\ pc' = pc
           ELSE IF Len(o.calls) > n
           THEN /\ pool' = seen
                /\ pc' = pc
           ELSE IF o.panicked
           THEN /\ pool' = [seen EXCEPT !.at[i] = "panicked"]
                /\ pc' = "crashed"
           ELSE /\ pool' = [seen EXCEPT !.at[i] = "done", !.slots[i] = o.result]
                /\ pc' = pc
    /\ UNCHANGED <<config, gw, idx, results, summary, calls, found, before, fault,
                   verbose, createdOk, runs, ref, cmd>>

\* Worker i calls CreateMergeRequest and writes its result to its slot
Make(i) ==
    /\ pool.on
    /\ pc = "running"
    /\ pool.at[i] = "create"
    /\ LET o == Create(config, gw, pool.faults[i], NewResult(WorkerEntry(config, i)),
                       pool.held[i].projectID, pool.held[i].calls, pool.held[i].log)
       IN  /\ gw' = o.gw
           /\ IF o.panicked
              THEN /\ pool' = [pool EXCEPT !.at[i] = "panicked"]
                   /\ pc' = "crashed"
              ELSE /\ pool' = [pool EXCEPT !.at[i] = "done", !.slots[i] = o.result]
                   /\ pc' = pc
    /\ UNCHANGED <<config, idx, results, summary, calls, found, before, fault,
                   verbose, createdOk, runs, ref, cmd>>

WorkerLook == \E i \in 1..Len(config.Projects) : Look(i)

WorkerCreate == \E i \in 1..Len(config.Projects) : Make(i)

\* Every worker is through: the slots are the results, the counters are reduced
\* from them
PoolReturn ==
    /\ pool.on
    /\ pc = "running"
    /\ \A i \in 1..Len(config.Projects) : pool.at[i] = "done"
    /\ results' = pool.slots
    /\ summary' = Reduce(NewSummary(Len(config.Projects)), pool.slots)
    /\ pc' = "done"
    /\ UNCHANGED <<config, gw, idx, calls, found, before, fault, verbose, createdOk, runs,
                   ref, cmd, pool>>

\* The gateway behaviours of a run in which at most one entry meets a failure
PoolFaultLists(n) ==
    {faults \in [1..n -> PoolFaults] :
        \A i, j \in 1..n : (faults[i] # "none" /\ faults[j] # "none") => i = j}

InitPool ==
    /\ \E r1 \in RunRepos(1) :
          gw = [id \in ProjectIDs |-> IF id = 1 THEN r1 ELSE ReadyRepo]
    /\ \E projects \in ProjectLists :
          /\ InitCommon(projects, FALSE)
          /\ \E faults \in PoolFaultLists(Len(projects)) :
                pool = [on |-> TRUE, faults |-> faults, start |-> gw,
                        at |-> [i \in 1..Len(projects) |-> "calling"],
                        made |-> [i \in 1..Len(projects) |-> 0],
                        view |-> [i \in 1..Len(projects) |-> gw],
                        held |-> [i \in 1..Len(projects) |->
                                     [projectID |-> 0, calls |-> <<>>, log |-> <<>>]],
                        slots |-> [i \in 1..Len(projects) |-> NewResult(projects[i])]]
    /\ ref = NoRef
    /\ cmd = NoCmd

NextPool == WorkerLook \/ WorkerCreate \/ PoolReturn

\* One run over a list of projects with one worker per entry
SpecPool == InitPool /\ [][NextPool]_vars

\* The upper-case form of a lower-case letter of the prefixes
UpperChar(c) ==
    CASE c = "d" -> "D" [] c = "r" -> "R" [] c = "a" -> "A" [] c = "f" -> "F"
      [] c = "t" -> "T" [] c = "w" -> "W" [] c = "i" -> "I" [] c = "p" -> "P"
      [] OTHER -> c

\* Every spelling of word in upper and lower case
RECURSIVE Casings(_)
Casings(word) ==
    IF word = <<>> THEN {<<>>}
    ELSE {<<c>> \o rest : c \in {Head(word), UpperChar(Head(word))},
                          rest \in Casings(Tail(word))}

\* The two prefixes and words that fall short of them
TitleWords ==
    {DraftPrefix, WipPrefix, <<"d", "r", "a", "f", "t">>, <<"w", "i", "p">>,
     <<"d", "r", "a", "f", ":">>, <<"w", "i", ":">>}

\* What a title may have before and after the word
TitleLeads == {<<>>, <<" ">>, <<"\t", " ">>, <<"\n">>, <<"\f", "">>, <<" ">>, <<"a", " ">>}
TitleTails == {<<>>, <<" ", "X">>, <<":">>, <<" ">>}

Titles ==
    {lead \o word \o tail :
        lead \in TitleLeads,
        word \in UNION {Casings(w) : w \in TitleWords},
        tail \in TitleTails}

\* One reconciliation of a repository with one open merge request, of every
\* title and flag
InitDraft ==
    /\ \E title \in Titles, flag \in BOOLEAN :
          gw = [id \in ProjectIDs |->
                   IF id = 1
                   THEN [ReadyRepo EXCEPT
                            !.mrs = <<OpenMR(1, 1, [Title |-> title, Draft |-> flag])>>]
                   ELSE ReadyRepo]
    /\ InitCommon(<<"g/a">>, FALSE)
    /\ ref = NoRef
    /\ cmd = NoCmd
    /\ pool = NoPool

NextDraft == ProcessNext \/ Return

SpecDraft == InitDraft /\ [][NextDraft]_vars

-----------------------------------------------------------------------------
(* package main: the bulk-mr and bulk-mr-topic commands *)

\* A --project value is kept as its segments between slashes, a group as its one
\* segment; the flags that are only tested for emptiness are plain strings

\* The segments of the paths the platform knows
Segments(path) == IF path = "g/a" THEN <<"g", "a">> ELSE <<"g", "b">>

\* The path spelled by segments
JoinPath(segs) == CHOOSE path \in Paths : Segments(path) = segs

\* strings.Contains(project, "/")
ContainsSlash(project) == Len(project) > 1

\* The loop over projects that puts the group before a bare project name
RECURSIVE ExpandGroup(_, _)
ExpandGroup(group, projects) ==
    IF projects = <<>> THEN <<>>
    ELSE LET project == Head(projects)
             processed == IF group # "" /\ ~ContainsSlash(project)
                          THEN <<group>> \o project
                          ELSE project
         IN  <<JoinPath(processed)>> \o ExpandGroup(group, Tail(projects))

\* The first required flag of bulk-mr found empty, "" when none is
MissingBulkMR(c) ==
    IF c.origin = Empty THEN "origin"
    ELSE IF c.target = Empty THEN "target"
    ELSE IF Len(c.projects) = 0 THEN "project"
    ELSE IF c.gitlabURL = "" THEN "gitlab-url"
    ELSE IF c.token = "" THEN "token"
    ELSE ""

\* The first required flag of bulk-mr-topic found empty, "" when none is
MissingBulkMRTopic(c) ==
    IF c.origin = Empty THEN "origin"
    ELSE IF c.target = Empty THEN "target"
    ELSE IF c.topic = "" THEN "topic"
    ELSE IF c.gitlabURL = "" THEN "gitlab-url"
    ELSE IF c.token = "" THEN "token"
    ELSE ""

\* Client.ListProjectsByTopic against a platform whose topic holds the projects
\* of server and which serves pages of perPage entries, or of pageCap entries
\* when perPage is more than it serves on one page
GwListProjectsByTopic(server, pageCap, topicName, page, perPage, failed) ==
    IF failed
    THEN [val |-> <<>>,
          err |-> <<"failed to list projects for topic %s: %w", topicName, ApiError>>]
    ELSE LET served == IF perPage > pageCap THEN pageCap ELSE perPage
             first  == (page - 1) * served + 1
             last   == IF page * served < Len(server) THEN page * served ELSE Len(server)
         IN  [val |-> SubSeq(server, first, last), err |-> NoErr]

\* ExitCode that reports success whatever the summary
ExitCode_AlwaysZero(sum) == 0

\* The exit code after the summary is printed: os.Exit(1) on errors, else main returns
ExitCode(sum) == IF sum.Errors > 0 THEN 1 ELSE 0

\* os.Exit(code), the command line being c
Exit(c, code) ==
    /\ pc' = "exited"
    /\ cmd' = [c EXCEPT !.exit = code]
    /\ UNCHANGED <<config, gw, idx, results, summary, calls, found, before, fault, verbose,
                   createdOk, runs, ref, pool>>

\* bulkmr.NewService(client, cfg) and the first lines of ProcessProjects
StartProcess(cfg) ==
    /\ config' = cfg
    /\ pc' = "running"
    /\ idx' = 1
    /\ results' = <<>>
    /\ summary' = NewSummary(Len(cfg.Projects))
    /\ UNCHANGED <<gw, calls, found, before, fault, verbose, createdOk, runs, ref, pool>>

\* bulkMRCommand up to the call of ProcessProjects
BulkMRCommand ==
    /\ pc = "flags"
    /\ cmd.name = "bulk-mr"
    /\ IF MissingBulkMR(cmd) # ""
       THEN Exit(cmd, 1)
       ELSE /\ StartProcess([OriginBranch |-> cmd.origin, TargetBranch |-> cmd.target,
                             Projects |-> ExpandGroup(cmd.group, cmd.projects),
                             Verbose |-> cmd.verbose])
            /\ UNCHANGED cmd

\* bulkMRTopicCommand up to the loop that fetches the projects
BulkMRTopicCommand ==
    /\ pc = "flags"
    /\ cmd.name = "bulk-mr-topic"
    /\ IF MissingBulkMRTopic(cmd) # ""
       THEN Exit(cmd, 1)
       ELSE /\ pc' = "fetching"
            /\ UNCHANGED <<config, gw, idx, results, summary, calls, found, before, fault,
                           verbose, createdOk, runs, ref, cmd, pool>>

\* The two breaks of the loop that fetches: an empty page, a page not full
LeavesLoop(projects, perPage) == Len(projects) = 0 \/ Len(projects) < perPage

\* One iteration of the loop that fetches the projects of the topic and, when it
\* leaves the loop, the lines up to the call of ProcessProjects
FetchPage ==
    /\ pc = "fetching"
    /\ \E failed \in BOOLEAN :
        LET projects == GwListProjectsByTopic(cmd.server, cmd.pageCap, cmd.topic, cmd.page,
                                              cmd.perPage, failed)
            listed == [cmd EXCEPT !.listCalls = @ + 1, !.asked = Append(@, cmd.page)]
            allProjects == cmd.allProjects \o projects.val
            fetched == [listed EXCEPT !.allProjects = allProjects]
        IN  IF projects.err # NoErr
            THEN Exit(listed, 1)
            ELSE IF ~LeavesLoop(projects.val, cmd.perPage)
            THEN /\ cmd' = [fetched EXCEPT !.page = @ + 1]
                 /\ UNCHANGED <<config, gw, pc, idx, results, summary, calls, found, before,
                                fault, verbose, createdOk, runs, ref, pool>>
            ELSE IF Len(allProjects) = 0
            THEN Exit(fetched, 0)
            ELSE /\ StartProcess([OriginBranch |-> cmd.origin, TargetBranch |-> cmd.target,
                                  Projects |-> allProjects, Verbose |-> cmd.verbose])
                 /\ cmd' = fetched

\* One iteration of the loop of ProcessProjects against gitlab.Client, whose
\* operations return a value or an error
ProcessNextClient ==
    /\ pc = "running"
    /\ idx <= Len(config.Projects)
    /\ \E f \in {"none"} \cup ErrorFaults : Iteration(f)
    /\ UNCHANGED <<config, runs, ref, cmd, pool>>

\* The results and the summary are printed and the command ends
Finish ==
    /\ pc = "done"
    /\ Exit(cmd, ExitCode(summary))

\* The flag values: a branch name given or not, and likewise the others
GroupName == "g"
TopicName == "backend"
PerPages  == {1, 2}

\* The most entries the platform serves on one page
PageCaps == {1, 2}

\* The --project values that spell a known path, with the group or without
ProjectArgs(group) ==
    {Segments(path) : path \in Paths}
        \cup (IF group = "" THEN {} ELSE {Tail(Segments(path)) : path \in Paths})

ProjectArgLists(group) ==
    UNION {[1..n -> ProjectArgs(group)] : n \in 0..MaxProjects}

\* The projects a topic can hold on the platform: each known project at most once
TopicContents ==
    {list \in {<<>>} \cup ProjectLists :
        \A i, j \in 1..Len(list) : list[i] = list[j] => i = j}

\* A command line of bulk-mr or bulk-mr-topic, the flags parsed
InitCmd ==
    /\ \E r1 \in RunRepos(1) :
          gw = [id \in ProjectIDs |-> IF id = 1 THEN r1 ELSE ReadyRepo]
    /\ \E origin \in {Empty, OriginBranch}, target \in {Empty, TargetBranch},
          gitlabURL \in {"", "https://gitlab.example.com"}, token \in {"", "glpat"},
          isVerbose \in BOOLEAN :
          \/ \E group \in {"", GroupName} : \E projects \in ProjectArgLists(group) :
                cmd = [name |-> "bulk-mr", origin |-> origin, target |-> target,
                       group |-> group, projects |-> projects, topic |-> "",
                       gitlabURL |-> gitlabURL, token |-> token, verbose |-> isVerbose,
                       perPage |-> 1, pageCap |-> 1, page |-> 1, server |-> <<>>,
                       allProjects |-> <<>>,
                       listCalls |-> 0, asked |-> <<>>, exit |-> 0]
          \/ \E topic \in {"", TopicName}, perPage \in PerPages, pageCap \in PageCaps,
                server \in TopicContents :
                cmd = [name |-> "bulk-mr-topic", origin |-> origin, target |-> target,
                       group |-> "", projects |-> <<>>, topic |-> topic,
                       gitlabURL |-> gitlabURL, token |-> token, verbose |-> isVerbose,
                       perPage |-> perPage, pageCap |-> pageCap, page |-> 1,
                       server |-> server,
                       allProjects |-> <<>>, listCalls |-> 0, asked |-> <<>>, exit |-> 0]
    /\ config = [OriginBranch |-> Empty, TargetBranch |-> Empty, Projects |-> <<>>,
                 Verbose |-> FALSE]
    /\ pc = "flags"
    /\ idx = 1
    /\ results = <<>>
    /\ summary = NewSummary(0)
    /\ calls = <<>>
    /\ found = NotFound
    /\ verbose = <<>>
    /\ fault = "none"
    /\ createdOk = [id \in ProjectIDs |-> 0]
    /\ before = [gw |-> gw, createdOk |-> createdOk, path |-> ""]
    /\ runs = 1
    /\ ref = NoRef
    /\ pool = NoPool

NextCmd == BulkMRCommand \/ BulkMRTopicCommand \/ FetchPage \/ ProcessNextClient \/ Return
               \/ Finish

SpecCmd == InitCmd /\ [][NextCmd]_vars

-----------------------------------------------------------------------------
(* package main: the merge command *)

\* The page size the merge command asks for, and the one page it asks for
MergePerPage == 100

\* Client.ListOpenMergeRequestsByTarget against a platform whose projects have the
\* merge requests of open for the target branch
GwListOpenMergeRequestsByTarget(open, projectID, failed) ==
    IF failed
    THEN [val |-> <<>>, err |-> <<"failed to list merge requests: %w", ApiError>>]
    ELSE [val |-> open[projectID], err |-> NoErr]

\* Client.AcceptMergeRequest: the merge request leaves the open ones
GwAcceptMergeRequest(open, projectID, mrIID, failed) ==
    IF failed
    THEN [open |-> open, err |-> <<"failed to accept merge request: %w", ApiError>>]
    ELSE [open |-> [open EXCEPT ![projectID] =
                        SelectSeq(@, LAMBDA mr : mr.IID # mrIID)],
          err |-> NoErr]

NotDraft(mr) == ~IsDraft(mr)

\* NonDraftMRs that keeps the drafts
NonDraftMRs_All(mrs) == mrs

\* The merge requests left after the drafts are filtered out
NonDraftMRs(mrs) == SelectSeq(mrs, NotDraft)

\* Confirmed that takes everything but n for a yes
Confirmed_NotNo(line) == ToLower(TrimSpace(line)) # <<"n">>

\* The answer line says y or yes
Confirmed(line) ==
    LET response == ToLower(TrimSpace(line))
    IN  response = <<"y">> \/ response = <<"y", "e", "s">>

\* EndOfInput that counts the unanswered prompt as skipped
EndOfInput_CountsSkipped(c) == [c EXCEPT !.queue = <<>>, !.skippedCount = @ + 1]

\* scanner.Scan() returned false: break out of the prompts of this project
EndOfInput(c) == [c EXCEPT !.queue = <<>>]

\* mergeCommand up to the loop over the projects
MergeCommand ==
    /\ pc = "flags"
    /\ cmd.name = "merge"
    /\ IF cmd.target = "" \/ cmd.topic = ""
       THEN Exit(cmd, 1)
       ELSE IF cmd.gitlabURL = "" \/ cmd.token = ""
       THEN Exit(cmd, 1)
       ELSE \E failed \in BOOLEAN :
            LET projects == GwListProjectsByTopic([i \in 1..cmd.size |-> i], MergePerPage,
                                                  cmd.topic, 1, MergePerPage, failed)
                listed == [cmd EXCEPT !.listCalls = @ + 1]
            IN  IF projects.err # NoErr
                THEN Exit(listed, 1)
                ELSE IF Len(projects.val) = 0
                THEN Exit(listed, 0)
                ELSE /\ pc' = "merging"
                     /\ cmd' = [listed EXCEPT !.projects = projects.val]
                     /\ UNCHANGED <<config, gw, idx, results, summary, calls, found, before,
                                    fault, verbose, createdOk, runs, ref, pool>>

\* The loop over the projects, up to the prompts: list the open merge requests
\* of the next project and filter the drafts out
MergeProject ==
    /\ pc = "merging"
    /\ cmd.queue = <<>>
    /\ cmd.pi <= Len(cmd.projects)
    /\ LET project == cmd.projects[cmd.pi]
           mrs == GwListOpenMergeRequestsByTarget(cmd.open, project, project \in cmd.failing)
           next == [cmd EXCEPT !.pi = @ + 1, !.cur = project,
                               !.listed = Append(@, project)]
       IN  cmd' = IF mrs.err # NoErr
                  THEN [next EXCEPT !.errorCount = @ + 1]
                  ELSE [next EXCEPT !.queue = NonDraftMRs(mrs.val)]
    /\ UNCHANGED <<config, gw, pc, idx, results, summary, calls, found, before, fault,
                   verbose, createdOk, runs, ref, pool>>

\* One prompt: show the merge request, read a line, accept on y or yes
MergePrompt ==
    /\ pc = "merging"
    /\ cmd.queue # <<>>
    /\ LET mr == Head(cmd.queue)
           shown == [cmd EXCEPT !.prompts = Append(@, [project |-> cmd.cur, mr |-> mr])]
       IN  IF cmd.stdin = <<>>
           THEN cmd' = EndOfInput(shown)
           ELSE LET line == Head(cmd.stdin)
                    read == [shown EXCEPT !.stdin = Tail(@), !.queue = Tail(@)]
                IN  IF Confirmed(line)
                    THEN \E failed \in BOOLEAN :
                         LET merged == GwAcceptMergeRequest(cmd.open, cmd.cur, mr.IID, failed)
                             called == [read EXCEPT
                                 !.open = merged.open,
                                 !.accepted = Append(@, [project |-> cmd.cur, mr |-> mr,
                                                         prompt |-> Len(shown.prompts),
                                                         line |-> line,
                                                         ok |-> merged.err = NoErr])]
                         IN  cmd' = IF merged.err # NoErr
                                    THEN [called EXCEPT !.errorCount = @ + 1]
                                    ELSE [called EXCEPT !.mergedCount = @ + 1]
                    ELSE cmd' = [read EXCEPT !.skippedCount = @ + 1]
    /\ UNCHANGED <<config, gw, pc, idx, results, summary, calls, found, before, fault,
                   verbose, createdOk, runs, ref, pool>>

\* The summary is printed and the command ends
MergeFinish ==
    /\ pc = "merging"
    /\ cmd.queue = <<>>
    /\ cmd.pi > Len(cmd.projects)
    /\ Exit(cmd, IF cmd.errorCount > 0 THEN 1 ELSE 0)

\* Longest input the user types
MaxAnswers == 2

\* The lines a user may type at a prompt
Answers == {<<"y">>, <<"\f", "Y", "E", "S", "">>, <<"n">>, <<>>}

Inputs == UNION {[1..n -> Answers] : n \in 0..MaxAnswers}

\* What a project of a small topic may have open for the target branch
MergeLists(id) ==
    {<<>>,
     <<OpenMR(id, 1, [Title |-> TitleWip, Draft |-> FALSE]),
       OpenMR(id, 2, [Title |-> TitleMention, Draft |-> FALSE])>>,
     <<OpenMR(id, 1, [Title |-> MergeTitle(OriginBranch, TargetBranch), Draft |-> FALSE]),
       OpenMR(id, 2, [Title |-> MergeTitle(OriginBranch, TargetBranch), Draft |-> TRUE])>>,
     <<OpenMR(id, 1, [Title |-> TitleMention, Draft |-> FALSE]),
       OpenMR(id, 2, [Title |-> MergeTitle(OriginBranch, TargetBranch), Draft |-> FALSE])>>}

\* A merge command line before the flags are looked at
MergeLine(target, topic, gitlabURL, token, size, open, failing, input) ==
    [name |-> "merge", target |-> target, topic |-> topic, gitlabURL |-> gitlabURL,
     token |-> token, size |-> size, open |-> open, failing |-> failing,
     input |-> input, stdin |-> input, projects |-> <<>>, pi |-> 1, cur |-> 0,
     queue |-> <<>>, prompts |-> <<>>, accepted |-> <<>>, listed |-> <<>>,
     mergedCount |-> 0, skippedCount |-> 0, errorCount |-> 0, listCalls |-> 0, exit |-> 0]

\* Merge command lines: with a flag or an environment variable missing; over
\* topics of up to two projects; over topics that fill the page asked for, whose
\* first and last project have a merge request open
InitMerge ==
    /\ \/ \E target \in {"", "rc"}, topic \in {"", TopicName},
             gitlabURL \in {"", "https://gitlab.example.com"}, token \in {"", "glpat"} :
             /\ "" \in {target, topic, gitlabURL, token}
             /\ cmd = MergeLine(target, topic, gitlabURL, token, 1,
                                [id \in {1} |-> <<>>], {}, <<<<"y">>>>)
       \/ \E size \in 0..2, input \in Inputs :
          \E open \in [1..size -> UNION {MergeLists(id) : id \in 1..size}],
             failing \in SUBSET (1..size) :
             /\ \A id \in 1..size : open[id] \in MergeLists(id)
             /\ cmd = MergeLine("rc", TopicName, "https://gitlab.example.com", "glpat",
                                size, open, failing, input)
       \/ \E size \in {MergePerPage, MergePerPage + 1},
             input \in {<<>>, <<<<"y">>, <<"y">>>>, <<<<"n">>, <<"y">>>>} :
             cmd = MergeLine("rc", TopicName, "https://gitlab.example.com", "glpat", size,
                             [id \in 1..size |->
                                 IF id \in {1, size}
                                 THEN <<OpenMR(id, 1, [Title |-> TitleMention,
                                                       Draft |-> FALSE])>>
                                 ELSE <<>>],
                             {}, input)
    /\ \E r1 \in {ReadyRepo} : gw = [id \in ProjectIDs |-> r1]
    /\ config = [OriginBranch |-> Empty, TargetBranch |-> Empty, Projects |-> <<>>,
                 Verbose |-> FALSE]
    /\ pc = "flags"
    /\ idx = 1
    /\ results = <<>>
    /\ summary = NewSummary(0)
    /\ calls = <<>>
    /\ found = NotFound
    /\ verbose = <<>>
    /\ fault = "none"
    /\ createdOk = [id \in ProjectIDs |-> 0]
    /\ before = [gw |-> gw, createdOk |-> createdOk, path |-> ""]
    /\ runs = 1
    /\ ref = NoRef
    /\ pool = NoPool

NextMerge == MergeCommand \/ MergeProject \/ MergePrompt \/ MergeFinish

SpecMerge == InitMerge /\ [][NextMerge]_vars

-----------------------------------------------------------------------------
(* Vocabulary of the properties: the most recent reconciliation *)

\* A list entry has been reconciled in this invocation / and processProject returned
Reconciled == calls # <<>>
Returned   == Reconciled /\ pc # "crashed"

\* The result of the most recent reconciliation (when it returned)
Last == results[Len(results)]

\* The repository of the most recent reconciliation, as it was when it began
LastID   == ProjectID(before.path)
RepoThen == before.gw[LastID]

Called(op) == \E i \in 1..Len(calls) : calls[i][1] = op

HasNonDraft(list) == \E i \in 1..Len(list) : ~IsDraft(list[i])

-----------------------------------------------------------------------------
(* C1 *)

\* C1 as stated: once CreateMergeRequest has succeeded for a repository, every
\* later reconciliation of it returns SKIPPED_EXISTS or SKIPPED_DRAFT and does not
\* call CreateMergeRequest.
C1_LaterRunsAlwaysSkip ==
    (Reconciled /\ before.createdOk[LastID] >= 1)
        => /\ Returned
           /\ Last.Status \in {StatusSkippedExists, StatusSkippedDraft}
           /\ ~Called("CreateMergeRequest")

\* C1, amended: CreateMergeRequest succeeds at most once per repository; no later
\* reconciliation of that repository calls it again, and every later
\* reconciliation that gets an answer from FindOpenMergeRequests returns
\* SKIPPED_EXISTS or SKIPPED_DRAFT.
C1_CreateAtMostOnce ==
    /\ \A id \in ProjectIDs : createdOk[id] <= 1
    /\ (Reconciled /\ before.createdOk[LastID] >= 1)
          => /\ ~Called("CreateMergeRequest")
             /\ found.answered
                   => /\ Returned
                      /\ Last.Status \in {StatusSkippedExists, StatusSkippedDraft}

\* A repository whose merge request an earlier reconciliation created is
\* reconciled again and skipped
C1_Witness ==
    /\ Returned
    /\ before.createdOk[LastID] = 1
    /\ found.answered
    /\ Last.Status = StatusSkippedExists

-----------------------------------------------------------------------------
(* C2 *)

\* C2 as stated: a reconciliation of a repository that has a non-draft open merge
\* request for the pair returns SKIPPED_EXISTS and does not call CreateMergeRequest.
C2_ExistingAlwaysSkippedExists ==
    (Reconciled /\ HasNonDraft(RepoThen.mrs))
        => /\ Returned
           /\ Last.Status = StatusSkippedExists
           /\ ~Called("CreateMergeRequest")

\* C2, amended: a reconciliation of such a repository never calls
\* CreateMergeRequest, and returns SKIPPED_EXISTS whenever FindOpenMergeRequests
\* answers it, that is whenever the project resolved, both branches were reported
\* present and no gateway call failed before.
C2_ExistingNeverCreates ==
    (Reconciled /\ HasNonDraft(RepoThen.mrs))
        => /\ ~Called("CreateMergeRequest")
           /\ found.answered => (Returned /\ Last.Status = StatusSkippedExists)

\* A repository with a non-draft open merge request is reconciled and skipped
C2_Witness ==
    /\ Returned
    /\ HasNonDraft(RepoThen.mrs)
    /\ Last.Status = StatusSkippedExists

-----------------------------------------------------------------------------
(* C3 *)

\* C3: when FindOpenMergeRequests returned one or more merge requests, neither
\* CompareBranches nor CreateMergeRequest is called in that reconciliation;
\* CreateMergeRequest is called only after FindOpenMergeRequests returned an
\* empty list.
C3_ExistingIsTerminal ==
    /\ (found.answered /\ found.list # <<>>)
          => (~Called("CompareBranches") /\ ~Called("CreateMergeRequest"))
    /\ Called("CreateMergeRequest")
          => /\ found.answered /\ found.list = <<>>
             /\ \E i, j \in 1..Len(calls) :
                   /\ i < j
                   /\ calls[i][1] = "FindOpenMergeRequests"
                   /\ calls[j][1] = "CreateMergeRequest"

\* The query returned two or more merge requests for a repository with commits
\* to merge, and the reconciliation stopped at the query
C3_Witness ==
    /\ Returned
    /\ found.answered /\ Len(found.list) >= 2
    /\ RepoThen.commits > 0
    /\ Len(calls) = 4

-----------------------------------------------------------------------------
(* C4 *)

BranchAbsent == ~RepoThen.origin \/ ~RepoThen.target

NoCallsPastBranches ==
    /\ ~Called("FindOpenMergeRequests")
    /\ ~Called("CompareBranches")
    /\ ~Called("CreateMergeRequest")

\* C4 as stated: when the origin or the target branch is absent the result is
\* SKIPPED_NO_BRANCH and there is no query, comparison or creation call.
C4_AbsentAlwaysSkippedBranch ==
    (Reconciled /\ BranchAbsent)
        => /\ Returned
           /\ Last.Status = StatusSkippedBranch
           /\ NoCallsPastBranches

\* C4, amended: when the origin or the target branch is absent there is no query,
\* comparison or creation call, and the result returned is SKIPPED_NO_BRANCH,
\* or ERROR when GetProject or a BranchExists call returned an error first.
C4_AbsentNeverPastBranches ==
    (Reconciled /\ BranchAbsent)
        => /\ NoCallsPastBranches
           /\ Returned => \/ Last.Status = StatusSkippedBranch
                          \/ /\ Last.Status = StatusError
                             /\ fault \in {"GetProject", "BranchOrigin", "BranchTarget"}
           /\ (Returned /\ fault \notin {"GetProject", "BranchOrigin", "BranchTarget"})
                 => Last.Status = StatusSkippedBranch

\* The target branch is missing from a repository that has the origin branch
C4_Witness ==
    /\ Returned
    /\ RepoThen.origin /\ ~RepoThen.target
    /\ Last.Status = StatusSkippedBranch
    /\ Len(calls) = 3

-----------------------------------------------------------------------------
(* C5 *)

AllDrafts(list) == list # <<>> /\ \A i \in 1..Len(list) : IsDraft(list[i])

\* C5: when every open merge request returned for the pair is a draft, the result
\* is SKIPPED_DRAFT (so never CREATED), also when the branches differ.
C5_DraftPrecedence ==
    (found.answered /\ AllDrafts(found.list))
        => (Returned /\ Last.Status = StatusSkippedDraft)

\* Only drafts are open in a repository whose branches differ
C5_Witness ==
    /\ Returned
    /\ found.answered /\ AllDrafts(found.list)
    /\ RepoThen.commits > 0
    /\ Last.Status = StatusSkippedDraft

-----------------------------------------------------------------------------
(* C6 *)

\* C6: every result processProject returned carries one of the six statuses.
C6_StatusAssigned ==
    \A i \in 1..Len(results) : results[i].Status \in Statuses

\* A result returned on the path where the query gave a non-empty list
C6_Witness ==
    /\ Returned
    /\ found.answered /\ found.list # <<>>
    /\ Last.Status \in Statuses

-----------------------------------------------------------------------------
(* C7 *)

\* C7: ProcessProjects returns one result per entry of config.Projects, in input
\* order, duplicates included; while it runs the results are those of the entries
\* processed so far.
C7_OneResultPerEntry ==
    /\ pc = "done" => Len(results) = Len(config.Projects)
    /\ pc \in {"running", "done"} => Len(results) = idx - 1
    /\ Len(results) <= Len(config.Projects)
    /\ \A i \in 1..Len(results) : results[i].Project = config.Projects[i]

\* A returned run over a list that names the same project twice
C7_Witness ==
    /\ pc = "done"
    /\ Len(config.Projects) = 2
    /\ config.Projects[1] = config.Projects[2]
    /\ Len(results) = 2

-----------------------------------------------------------------------------
(* C8 *)

\* Every entry was attempted, in order: GetProject was asked for each path
AllAttempted == ref.attempted = config.Projects

\* Entry ref.at ends in ERROR, or its failing call was never reached
FailureIsError ==
    \/ results[ref.at].Status = StatusError
    \/ results[ref.at] = ref.results[ref.at]

\* C8 as stated: a returned run attempted every entry in order, and a gateway
\* error at one entry makes that entry ERROR and leaves the result of every
\* other entry as it is in the run without that error.
C8_FailureTouchesOnlyItsEntry ==
    (ref.on /\ pc = "done")
        => /\ AllAttempted
           /\ FailureIsError
           /\ \A j \in 1..Len(results) : j # ref.at => results[j] = ref.results[j]

\* C8, amended: a returned run attempted every entry in order, and a gateway
\* error at one entry makes that entry ERROR and leaves as they are without it
\* the results of the entries before it and of the entries for other
\* repositories; a later entry for the same repository can differ.
C8_FailureStaysWithItsRepository ==
    /\ ref.on => /\ ref.attempted = SubSeq(config.Projects, 1, idx - 1)
                 /\ Len(ref.results) = Len(results)
                 /\ pc # "crashed"
    /\ (ref.on /\ pc = "done")
          => /\ AllAttempted
             /\ FailureIsError
             /\ \A j \in 1..Len(results) :
                   (j < ref.at \/ config.Projects[j] # config.Projects[ref.at])
                       => results[j] = ref.results[j]

\* The first of two repositories fails where it would have had its merge request
\* created, and the second has its merge request created all the same
C8_Witness ==
    /\ ref.on /\ pc = "done"
    /\ Len(config.Projects) = 2 /\ ref.at = 1
    /\ config.Projects[1] # config.Projects[2]
    /\ results[1].Status = StatusError
    /\ ref.results[1].Status = StatusCreated
    /\ results[2].Status = StatusCreated

-----------------------------------------------------------------------------
(* C9 *)

FixedOrder == <<"GetProject", "BranchExists(origin)", "BranchExists(target)",
                "FindOpenMergeRequests", "CompareBranches", "CreateMergeRequest">>

\* A logged call, with the branch a BranchExists call asked about
CallLabel(call) ==
    IF call[1] = "BranchExists"
    THEN IF call[3] = config.OriginBranch THEN "BranchExists(origin)"
         ELSE "BranchExists(target)"
    ELSE call[1]

\* The position in FixedOrder of the call at which the rule behind a result fires
RulePosition(result) ==
    CASE result.Status = StatusError ->
            CHOOSE n \in 1..6 :
                \/ n = 1 /\ fault = "GetProject"
                \/ n = 2 /\ fault = "BranchOrigin"
                \/ n = 3 /\ fault = "BranchTarget"
                \/ n = 4 /\ fault = "FindOpenMergeRequests"
                \/ n = 5 /\ fault = "CompareBranches"
                \/ n = 6 /\ fault = "CreateMergeRequest"
      [] result.Status = StatusSkippedBranch   -> IF ~RepoThen.origin THEN 2 ELSE 3
      [] result.Status = StatusSkippedExists   -> 4
      [] result.Status = StatusSkippedDraft    -> 4
      [] result.Status = StatusSkippedNoChange -> 5
      [] result.Status = StatusCreated         -> 6

\* C9: the gateway calls of one reconciliation are a prefix of GetProject,
\* BranchExists(origin), BranchExists(target), FindOpenMergeRequests,
\* CompareBranches, CreateMergeRequest, and the prefix ends at the call whose
\* answer decided the result.
C9_CallsArePrefix ==
    /\ Len(calls) <= Len(FixedOrder)
    /\ \A i \in 1..Len(calls) : CallLabel(calls[i]) = FixedOrder[i]
    /\ Returned => (Last.Status \in Statuses /\ Len(calls) = RulePosition(Last))

\* A reconciliation that went through all six calls
C9_Witness ==
    /\ Returned
    /\ Last.Status = StatusCreated
    /\ Len(calls) = 6

-----------------------------------------------------------------------------
(* C10 *)

FirstNonDraft(list) ==
    CHOOSE k \in 1..Len(list) : ~IsDraft(list[k]) /\ \A j \in 1..(k - 1) : IsDraft(list[j])

\* C10: the first merge request of the returned list that is not a draft decides:
\* SKIPPED_EXISTS with its id, IID and URL and a detail citing its IID, whatever
\* comes after it.
C10_FirstNonDraftWins ==
    (found.answered /\ HasNonDraft(found.list))
        => LET mr == found.list[FirstNonDraft(found.list)]
           IN  /\ Returned
               /\ Last.Status = StatusSkippedExists
               /\ Last.MergeRequestID = mr.ID
               /\ Last.MergeRequestIID = mr.IID
               /\ Last.MergeRequestURL = mr.WebURL
               /\ Last.Details = <<"Open MR already exists: !%d", mr.IID>>

\* Two merge requests that are not drafts were returned, and the first is cited
C10_Witness ==
    /\ Returned
    /\ found.answered /\ Len(found.list) >= 2
    /\ ~IsDraft(found.list[1]) /\ ~IsDraft(found.list[2])
    /\ Last.MergeRequestIID = found.list[1].IID
    /\ Last.MergeRequestIID # found.list[2].IID

-----------------------------------------------------------------------------
(* C11 *)

\* The last draft of a list of drafts
LastDraft(list) == list[Len(list)]

\* C11: when the returned list holds drafts only (at least one), the result is
\* SKIPPED_DRAFT with the id, IID, URL of the last draft in list order and a
\* detail citing its IID and title.
C11_LastDraftWins ==
    (found.answered /\ AllDrafts(found.list))
        => LET mr == LastDraft(found.list)
           IN  /\ Returned
               /\ Last.Status = StatusSkippedDraft
               /\ Last.MergeRequestID = mr.ID
               /\ Last.MergeRequestIID = mr.IID
               /\ Last.MergeRequestURL = mr.WebURL
               /\ Last.Details = <<"Draft MR exists: !%d (%s)", mr.IID, mr.Title>>

\* Two drafts were returned and the second is the one cited
C11_Witness ==
    /\ Returned
    /\ found.answered /\ Len(found.list) >= 2 /\ AllDrafts(found.list)
    /\ Last.MergeRequestIID = found.list[Len(found.list)].IID
    /\ Last.MergeRequestIID # found.list[1].IID

-----------------------------------------------------------------------------
(* C12 *)

\* CompareBranches was called and answered with a comparison
CompareAnswered == Called("CompareBranches") /\ fault \notin {"CompareBranches", "CompareNil"}

\* C12: when both branches exist, nothing is open for the pair and CompareBranches
\* yields zero commits, the result is SKIPPED_NO_CHANGE and CreateMergeRequest is
\* not called.
C12_NoChangeNeverCreates ==
    (CompareAnswered /\ RepoThen.commits = 0)
        => /\ RepoThen.origin /\ RepoThen.target /\ RepoThen.mrs = <<>>
           /\ Returned
           /\ Last.Status = StatusSkippedNoChange
           /\ Last.Details = <<"No changes between %s and %s", config.OriginBranch,
                               config.TargetBranch>>
           /\ ~Called("CreateMergeRequest")

\* A comparison without commits ended the reconciliation at the fifth call
C12_Witness ==
    /\ Returned
    /\ CompareAnswered /\ RepoThen.commits = 0
    /\ Last.Status = StatusSkippedNoChange
    /\ Len(calls) = 5

-----------------------------------------------------------------------------
(* C13 *)

\* CreateMergeRequest was called and returned a merge request
CreateSucceeded ==
    Called("CreateMergeRequest") /\ fault \notin {"CreateMergeRequest", "CreateNil"}

\* C13: when the project resolves, both branches exist, nothing is open, the
\* comparison has a commit and CreateMergeRequest succeeds, the result is CREATED
\* and carries the ID, IID and URL of the merge request that call returned.
C13_CreatedCarriesNewMR ==
    (Reconciled /\ CreateSucceeded)
        => LET mr == NewMergeRequest(before.gw, LastID,
                                     MergeTitle(config.OriginBranch, config.TargetBranch))
           IN  /\ RepoThen.origin /\ RepoThen.target /\ RepoThen.mrs = <<>>
               /\ RepoThen.commits > 0
               /\ Returned
               /\ Last.Status = StatusCreated
               /\ Last.MergeRequestID = mr.ID
               /\ Last.MergeRequestIID = mr.IID
               /\ Last.MergeRequestURL = mr.WebURL
               /\ gw[LastID].mrs = <<mr>>

\* A merge request was created and the result carries its id and its display
\* number, which differ
C13_Witness ==
    /\ Returned
    /\ CreateSucceeded
    /\ Last.Status = StatusCreated
    /\ Last.MergeRequestID = gw[LastID].mrs[1].ID
    /\ Last.MergeRequestID # Last.MergeRequestIID

-----------------------------------------------------------------------------
(* C14 *)

OriginDetail == <<"Origin branch <%s> does not exist", config.OriginBranch>>
TargetDetail == <<"Target branch <%s> does not exist", config.TargetBranch>>

\* C14 as stated: when the origin branch is absent the result is
\* SKIPPED_NO_BRANCH with the detail naming the origin branch, the target being
\* absent or not; the detail names the target branch only when the origin exists
\* and the target does not.
C14_OriginAbsentAlwaysNamed ==
    /\ (Returned /\ ~RepoThen.origin)
          => /\ Last.Status = StatusSkippedBranch
             /\ Last.Details = OriginDetail
    /\ (Returned /\ Last.Details = TargetDetail)
          => (RepoThen.origin /\ ~RepoThen.target)

\* C14, amended: when the origin branch is absent and neither GetProject nor the
\* origin check returned an error, the result is SKIPPED_NO_BRANCH with the detail
\* naming the origin branch, the target being absent or not; with such an error
\* it is ERROR.  The detail names the target branch only when the origin exists
\* and the target does not.
C14_OriginNamedFirst ==
    /\ (Returned /\ ~RepoThen.origin)
          => IF fault \in {"GetProject", "BranchOrigin"}
             THEN Last.Status = StatusError /\ Last.Details = Empty
             ELSE /\ Last.Status = StatusSkippedBranch
                  /\ Last.Details = OriginDetail
                  /\ Len(calls) = 2
    /\ (Returned /\ Last.Details = TargetDetail)
          => (RepoThen.origin /\ ~RepoThen.target /\ Last.Status = StatusSkippedBranch)

\* Both branches were absent and the result names the origin branch
C14_Witness ==
    /\ Returned
    /\ ~RepoThen.origin /\ ~RepoThen.target
    /\ Last.Status = StatusSkippedBranch
    /\ Last.Details = OriginDetail

-----------------------------------------------------------------------------
(* C15 *)

\* How many of the calls of the reconciliation went to op
CallCount(op) == Cardinality({i \in 1..Len(calls) : calls[i][1] = op})

\* The place in FixedOrder of the call that fault f makes fail
FaultPosition(f) == CHOOSE n \in 1..Len(FixedOrder) :
    f = <<"GetProject", "BranchOrigin", "BranchTarget", "FindOpenMergeRequests",
          "CompareBranches", "CreateMergeRequest">>[n]

\* The reconciliation made the call that had an error to return
ErrorReturned == fault \in ErrorFaults /\ Len(calls) >= FaultPosition(fault)

\* C15: a gateway call that returns an error ends the reconciliation with ERROR:
\* the call is not repeated and no gateway call follows it.  One reconciliation
\* calls GetProject, FindOpenMergeRequests, CompareBranches and
\* CreateMergeRequest at most once each and BranchExists at most twice.
C15_ErrorEndsWithoutRetry ==
    /\ ErrorReturned
          => /\ Returned
             /\ Last.Status = StatusError
             /\ Len(calls) = FaultPosition(fault)
    /\ \A op \in {"GetProject", "FindOpenMergeRequests", "CompareBranches",
                  "CreateMergeRequest"} : CallCount(op) <= 1
    /\ CallCount("BranchExists") <= 2

\* The open-merge-request query returned an error and was the last of four calls
C15_Witness ==
    /\ Returned
    /\ fault = "FindOpenMergeRequests"
    /\ Len(calls) = 4
    /\ CallCount("FindOpenMergeRequests") = 1
    /\ Last.Status = StatusError

-----------------------------------------------------------------------------
(* C16 *)

\* The context the engine puts before the error of the call that fault f fails
EngineContext(f) ==
    CASE f = "BranchOrigin"          -> "failed to check origin branch: %v"
      [] f = "BranchTarget"          -> "failed to check target branch: %v"
      [] f = "FindOpenMergeRequests" -> "failed to find existing merge requests: %v"
      [] f = "CompareBranches"       -> "failed to compare branches: %v"
      [] f = "CreateMergeRequest"    -> "failed to create merge request: %v"

EngineContexts == {EngineContext(f) : f \in ErrorFaults \ {"GetProject"}}

\* The error text the gateway returned from the call that fault f fails
GatewayError(f) ==
    CASE f = "GetProject" -> GwGetProject(before.gw, before.path, f).err
      [] f = "BranchOrigin" ->
            GwBranchExists(before.gw, LastID, "origin", config.OriginBranch, f).err
      [] f = "BranchTarget" ->
            GwBranchExists(before.gw, LastID, "target", config.TargetBranch, f).err
      [] f = "FindOpenMergeRequests" -> GwFindOpenMergeRequests(before.gw, LastID, f).err
      [] f = "CompareBranches" -> GwCompareBranches(before.gw, LastID, f).err
      [] f = "CreateMergeRequest" ->
            GwCreateMergeRequest(before.gw, LastID,
                MergeTitle(config.OriginBranch, config.TargetBranch), f).err

\* message is a context line of the engine followed by the gateway error
EngineWrapped(message) ==
    /\ Len(message) = 2
    /\ message[1] \in EngineContexts
    /\ message[2] = GatewayError(fault)

\* C16 as stated: for each of the five failure kinds the message of an ERROR
\* result is the gateway's error text under a prefix naming the operation that
\* the engine added.
C16_EveryErrorWrapped ==
    (Returned /\ Last.Status = StatusError) => EngineWrapped(Last.ErrorMessage)

\* C16, amended: the message of an ERROR result is the gateway's error text under
\* a prefix naming the operation that the engine added when a branch check, the
\* query, the comparison or the creation failed; when the resolution failed it
\* is the gateway's error text alone.
C16_WrappedExceptResolution ==
    (Returned /\ Last.Status = StatusError)
        => /\ fault \in ErrorFaults
           /\ IF fault = "GetProject"
              THEN Last.ErrorMessage = GatewayError(fault)
              ELSE Last.ErrorMessage = <<EngineContext(fault), GatewayError(fault)>>

\* A failed comparison gave a message with the engine's context line
C16_Witness ==
    /\ Returned
    /\ fault = "CompareBranches"
    /\ Last.Status = StatusError
    /\ Last.ErrorMessage[1] = "failed to compare branches: %v"
    /\ Last.ErrorMessage[2] = GatewayError("CompareBranches")

-----------------------------------------------------------------------------
(* C17 *)

\* The merge-request reference of result is all zero
NoMRFields(result) ==
    /\ result.MergeRequestID = 0
    /\ result.MergeRequestIID = 0
    /\ result.MergeRequestURL = Empty

\* C17: in every result the fields its status has no use for are zero:
\* ErrorMessage is set only with ERROR, Details is empty with ERROR, and the
\* merge-request ID, IID and URL are zero with SKIPPED_NO_BRANCH,
\* SKIPPED_NO_CHANGE and ERROR.
C17_IrrelevantFieldsZero ==
    \A i \in 1..Len(results) :
        LET result == results[i]
        IN  /\ result.ErrorMessage # Empty => result.Status = StatusError
            /\ result.Status = StatusError => result.Details = Empty
            /\ result.Status \in {StatusSkippedBranch, StatusSkippedNoChange, StatusError}
                  => NoMRFields(result)
            /\ ~NoMRFields(result)
                  => result.Status \in {StatusCreated, StatusSkippedExists, StatusSkippedDraft}

\* An ERROR result carrying a message and nothing else
C17_Witness ==
    /\ Returned
    /\ Last.Status = StatusError
    /\ Last.ErrorMessage # Empty
    /\ Last.Details = Empty
    /\ NoMRFields(Last)

-----------------------------------------------------------------------------
(* C18 *)

\* How many results have the status
CountOf(status) == Cardinality({i \in 1..Len(results) : results[i].Status = status})

CounterSum ==
    summary.Created + summary.SkippedExists + summary.SkippedDraft
        + summary.SkippedBranch + summary.SkippedNoChange + summary.Errors

\* C18: the Summary that ProcessProjects returns has Total equal to the number of
\* entries, each of the six counters equal to the number of results with its
\* status, and the six counters add up to Total.
C18_SummaryCounts ==
    pc = "done"
        => /\ summary.Total = Len(config.Projects)
           /\ summary.Created = CountOf(StatusCreated)
           /\ summary.SkippedExists = CountOf(StatusSkippedExists)
           /\ summary.SkippedDraft = CountOf(StatusSkippedDraft)
           /\ summary.SkippedBranch = CountOf(StatusSkippedBranch)
           /\ summary.SkippedNoChange = CountOf(StatusSkippedNoChange)
           /\ summary.Errors = CountOf(StatusError)
           /\ CounterSum = summary.Total

\* A returned run over two entries, one skipped for a draft and one failed
C18_Witness ==
    /\ pc = "done"
    /\ summary.Total = 2
    /\ summary.SkippedDraft = 1
    /\ summary.Errors = 1

-----------------------------------------------------------------------------
(* C19 *)

\* The command has ended / ended after ProcessProjects returned (the service is
\* built over a list that is never empty)
Exited  == pc = "exited"
Started == config.Projects # <<>>

HasErrorResult == \E i \in 1..Len(results) : results[i].Status = StatusError

\* The first required flag found empty by the command, "" when none is
Missing == IF cmd.name = "bulk-mr" THEN MissingBulkMR(cmd) ELSE MissingBulkMRTopic(cmd)

\* C19 as stated: a run of bulk-mr or bulk-mr-topic exits non-zero if and only if
\* at least one result has status ERROR.
C19_NonZeroIffErrorResult ==
    Exited => (cmd.exit # 0 <=> HasErrorResult)

\* C19, amended: after ProcessProjects has returned, the run exits non-zero if
\* and only if at least one result has status ERROR, so a run whose results are
\* all CREATED or skips exits zero.  Without any result the run exits non-zero
\* when a required flag is empty or the listing of the topic's projects failed,
\* and zero when the topic has no projects.
C19_ExitFollowsErrors ==
    /\ (Exited /\ Started)
          => /\ cmd.exit # 0 <=> HasErrorResult
             /\ cmd.exit \in {0, 1}
    /\ (Exited /\ ~Started)
          => /\ results = <<>>
             /\ IF Missing # "" THEN cmd.exit = 1
                ELSE /\ cmd.name = "bulk-mr-topic"
                     /\ cmd.listCalls > 0
                     /\ cmd.exit = 0 => cmd.allProjects = <<>>
                     /\ cmd.exit \in {0, 1}

\* A run that created one merge request and failed on the next entry exited with 1
C19_Witness ==
    /\ Exited /\ Started
    /\ Len(results) = 2
    /\ results[1].Status = StatusCreated
    /\ results[2].Status = StatusError
    /\ cmd.exit = 1

-----------------------------------------------------------------------------
(* C20 *)

NoGatewayCall == cmd.listCalls = 0 /\ calls = <<>> /\ gw = before.gw

\* Every entry of the list has its result, in the order of the list
EveryEntryHasResult ==
    /\ Len(results) = Len(config.Projects)
    /\ \A i \in 1..Len(results) : results[i].Project = config.Projects[i]

\* C20 as stated: the process ends without ProcessProjects having returned only
\* for a configuration error, found before any gateway call; once ProcessProjects
\* has begun the process does not end before every entry has a result.
C20_OnlyConfigurationAborts ==
    /\ (Exited /\ ~Started) => (Missing # "" /\ NoGatewayCall)
    /\ (Exited /\ Started) => EveryEntryHasResult

\* C20, amended: the process ends without ProcessProjects having returned for a
\* configuration error, found before any gateway call, and in bulk-mr-topic also
\* when the listing of the topic's projects returns an error or no project, in
\* each case before any repository is processed; once ProcessProjects has begun
\* the process does not end before every entry has a result.
C20_AbortsBeforeProcessing ==
    /\ (Exited /\ ~Started)
          => /\ results = <<>> /\ calls = <<>> /\ gw = before.gw
             /\ \/ Missing # "" /\ NoGatewayCall /\ cmd.exit = 1
                \/ /\ Missing = ""
                   /\ cmd.name = "bulk-mr-topic"
                   /\ cmd.listCalls > 0
                   /\ cmd.allProjects = <<>> \/ cmd.exit = 1
    /\ Missing # "" => pc \in {"flags", "exited"}
    /\ (Exited /\ Started) => EveryEntryHasResult
    /\ (Started /\ pc = "running") => Len(results) = idx - 1

\* A run whose first entry failed went on to the second and ended with both results
C20_Witness ==
    /\ Exited /\ Started
    /\ Len(config.Projects) = 2
    /\ results[1].Status = StatusError
    /\ results[2].Status \in Statuses \ {StatusError}
    /\ EveryEntryHasResult

-----------------------------------------------------------------------------
(* C21 *)

\* c is the letter l in lower or upper case
SameLetter(c, l) == c = l \/ c = UpperChar(l)

\* title spells word, in any case, from position k on
SpelledAt(title, k, word) ==
    /\ k + Len(word) - 1 <= Len(title)
    /\ \A j \in 1..Len(word) : SameLetter(title[k + j - 1], word[j])

\* The white space of the alphabet: space, tab, line feed, vertical tab, form
\* feed, carriage return, U+0085, U+00A0, U+1680
WhiteSpace == {" ", "\t", "\n", "", "\f", "\r", "", " ", " "}

\* After white space only, title goes on with draft: or wip: in any case
StartsAsDraft(title) ==
    \E k \in 1..Len(title) :
        /\ \A j \in 1..(k - 1) : title[j] \in WhiteSpace
        /\ SpelledAt(title, k, DraftPrefix) \/ SpelledAt(title, k, WipPrefix)

\* C21: IsDraft is true if and only if the Draft flag is true or the title,
\* trimmed and lower-cased, starts with draft: or wip:; the word further on in the
\* title does not make a draft.  The engine skips for a draft exactly then.
C21_IsDraftIff ==
    (found.answered /\ found.list # <<>>)
        => LET mr == found.list[1]
           IN  /\ IsDraft(mr) <=> (mr.Draft \/ StartsAsDraft(mr.Title))
               /\ Returned
               /\ Last.Status = StatusSkippedDraft
                     <=> (mr.Draft \/ StartsAsDraft(mr.Title))

\* A title with the prefix after another word was taken for no draft, and one
\* with the prefix after whitespace would be taken for one
C21_Witness ==
    /\ Returned
    /\ found.answered /\ found.list # <<>>
    /\ ~found.list[1].Draft
    /\ found.list[1].Title = <<"a", " ", "D", "r", "a", "f", "t", ":", " ", "X">>
    /\ Last.Status = StatusSkippedExists
    /\ IsDraft([Title |-> <<"\f", "", "w", "I", "P", ":">>, Draft |-> FALSE])

-----------------------------------------------------------------------------
(* C22 *)

Merging == cmd.name = "merge" /\ pc \in {"merging", "exited"}

\* C22: the merge command calls AcceptMergeRequest only for a merge request that
\* is not a draft and whose own prompt was answered y or yes (in any case, with
\* surrounding whitespace); a draft is never shown at a prompt.
C22_AcceptsOnlyConfirmedNonDrafts ==
    Merging
        => /\ \A i \in 1..Len(cmd.prompts) : ~IsDraft(cmd.prompts[i].mr)
           /\ \A i \in 1..Len(cmd.accepted) :
                 LET a == cmd.accepted[i]
                 IN  /\ ~IsDraft(a.mr)
                     /\ ~a.mr.Draft /\ ~StartsAsDraft(a.mr.Title)
                     /\ ToLower(TrimSpace(a.line)) \in {<<"y">>, <<"y", "e", "s">>}
                     /\ cmd.prompts[a.prompt] = [project |-> a.project, mr |-> a.mr]
                     /\ a.line = cmd.input[a.prompt]
                     /\ \A j \in 1..Len(cmd.accepted) : cmd.accepted[j].prompt = a.prompt => j = i

\* A project with a draft and a merge request that is not one: the second was
\* accepted on a yes, the draft was not shown
C22_Witness ==
    /\ Merging /\ pc = "exited"
    /\ cmd.size >= 1 /\ cmd.size <= 2
    /\ Len(cmd.accepted) = 1
    /\ cmd.accepted[1].mr.Title = TitleMention
    /\ cmd.accepted[1].line = <<"\f", "Y", "E", "S", "">>
    /\ Len(cmd.prompts) = 1

-----------------------------------------------------------------------------
(* C23 *)

\* The merge command went through its loop and ended
MergeDone == cmd.name = "merge" /\ pc = "exited" /\ cmd.projects # <<>>

WasListed(id) == \E i \in 1..Len(cmd.listed) : cmd.listed[i] = id
WasPrompted(id, mr) ==
    \E i \in 1..Len(cmd.prompts) : cmd.prompts[i] = [project |-> id, mr |-> mr]

\* C23: the merge command fetches all projects of the topic: every project with
\* the topic, however many there are, has its open merge requests for the target
\* branch listed, and those offered for confirmation.
C23_EveryProjectListed ==
    MergeDone
        => \A id \in 1..cmd.size :
              /\ WasListed(id)
              /\ (cmd.input = <<>> /\ cmd.failing = {} /\ Len(cmd.open[id]) = 1
                     /\ ~IsDraft(cmd.open[id][1]))
                    => WasPrompted(id, cmd.open[id][1])

-----------------------------------------------------------------------------
(* C25 *)

\* The run with one worker per entry has returned
PoolDone == pool.on /\ pc = "done"

\* What the range loop returns for the same list from the same platform, every
\* entry meeting the same gateway behaviour
Sequential == ProcessProjects(config, pool.start, pool.faults)

\* The merge requests the run opened in repository id
Opened(id, after) == Len(after[id].mrs) - Len(pool.start[id].mrs)

\* No two entries of the list resolve to the same repository
DistinctRepositories ==
    \A i, j \in 1..Len(config.Projects) :
        ProjectID(config.Projects[i]) = ProjectID(config.Projects[j]) => i = j

\* The run with one worker per entry has ended in the panic of a worker
PoolCrashed == pool.on /\ pc = "crashed"

\* C25 as stated: processing the entries with one worker each, every worker
\* writing its own slot and the counters reduced afterwards, gives the results and
\* the summary of the sequential run for every list, lists with duplicate paths
\* included, and opens no more merge requests than the sequential run.
C25_WorkersAsSequential ==
    PoolDone
        => /\ results = Sequential.results
           /\ summary = Sequential.summary
           /\ \A id \in ProjectIDs : Opened(id, gw) <= Opened(id, Sequential.gw)

\* C25, amended: for every list whose entries resolve to different repositories,
\* the run with one worker per entry returns exactly when the sequential run
\* returns, and then with its results and its summary, the platform left as the
\* sequential run leaves it; it ends in the panic of a worker (a nil return of
\* the gateway) exactly when the sequential run panics, and then with no results,
\* the other workers having opened at most one merge request per repository by
\* then.  For every list, slot i holds the result of entry i and the counters
\* count the slots.
C25_WorkersAsSequentialWhenDistinct ==
    /\ (PoolDone /\ DistinctRepositories)
          => /\ ~Sequential.panicked
             /\ results = Sequential.results
             /\ summary = Sequential.summary
             /\ gw = Sequential.gw
             /\ \A id \in ProjectIDs : Opened(id, gw) = Opened(id, Sequential.gw)
    /\ (PoolCrashed /\ DistinctRepositories)
          => /\ Sequential.panicked
             /\ results = <<>>
             /\ summary = NewSummary(Len(config.Projects))
             /\ \A id \in ProjectIDs : Opened(id, gw) \in {0, 1}
    /\ PoolDone
          => /\ Len(results) = Len(config.Projects)
             /\ \A i \in 1..Len(results) : results[i].Project = config.Projects[i]
             /\ summary.Total = Len(config.Projects)
             /\ summary.Created = CountOf(StatusCreated)
             /\ summary.SkippedExists = CountOf(StatusSkippedExists)
             /\ summary.SkippedDraft = CountOf(StatusSkippedDraft)
             /\ summary.SkippedBranch = CountOf(StatusSkippedBranch)
             /\ summary.SkippedNoChange = CountOf(StatusSkippedNoChange)
             /\ summary.Errors = CountOf(StatusError)

\* Two workers for two repositories have each opened a merge request
C25_Witness ==
    /\ PoolDone
    /\ Len(config.Projects) = 2
    /\ DistinctRepositories
    /\ results[1].Status = StatusCreated
    /\ results[2].Status = StatusCreated
    /\ summary.Created = 2

-----------------------------------------------------------------------------
(* C26 *)

\* The responses the two branch checks of the reconciliation get, when made
OriginResponse == BranchResponse(before.gw, LastID, "origin", fault)
TargetResponse == BranchResponse(before.gw, LastID, "target", fault)

\* The result the engine gives for the response to the check of a branch
AsResponse(resp, detail) ==
    IF resp.err = NoErr /\ resp.StatusCode = 404
    THEN Last.Status = StatusSkippedBranch /\ Last.Details = detail
    ELSE Last.Status = StatusError /\ Last.Details = Empty

\* C26: Client.BranchExists gives (false, no error) for a 404, (true, no error)
\* for a 200 and an error for every other status and for a transport failure; so
\* a missing branch ends in SKIPPED_NO_BRANCH, never in ERROR, and any other
\* response that is not a 200 ends in ERROR.
C26_NotFoundIsNoError ==
    /\ \A resp \in {OriginResponse, TargetResponse} :
          LET exists == BranchExists(resp, config.OriginBranch)
          IN  /\ exists.val <=> (resp.err = NoErr /\ resp.StatusCode = 200)
              /\ exists.err = NoErr <=> (resp.err = NoErr /\ resp.StatusCode \in {200, 404})
    /\ (Returned /\ Len(calls) = 2) => AsResponse(OriginResponse, OriginDetail)
    /\ (Returned /\ Len(calls) = 3) => AsResponse(TargetResponse, TargetDetail)
    /\ (Returned /\ Len(calls) > 2)
          => (OriginResponse.err = NoErr /\ OriginResponse.StatusCode = 200)
    /\ (Returned /\ Len(calls) > 3)
          => (TargetResponse.err = NoErr /\ TargetResponse.StatusCode = 200)

\* The origin check was answered 204 and the result is ERROR
C26_Witness ==
    /\ Returned
    /\ fault = "BranchOrigin204"
    /\ OriginResponse.StatusCode = 204
    /\ Last.Status = StatusError
    /\ Len(calls) = 2

-----------------------------------------------------------------------------
(* C27 *)

Counters == {"Created", "SkippedExists", "SkippedDraft", "SkippedBranch",
             "SkippedNoChange", "Errors"}

\* A step inside one invocation of ProcessProjects
InsideRun == pc = "running"

\* C27: during ProcessProjects the results list only grows at its end and the
\* counters only grow: after k entries the list holds exactly k results, no
\* earlier result has changed, no counter has decreased, the six counters add up
\* to k, and Total stays equal to the length of the input list.
C27_AppendOnly ==
    [][InsideRun
          => /\ Len(results') = idx' - 1
             /\ Len(results') \in {Len(results), Len(results) + 1}
             /\ \A i \in 1..Len(results) : results'[i] = results[i]
             /\ \A c \in Counters : summary'[c] >= summary[c]
             /\ summary'.Created + summary'.SkippedExists + summary'.SkippedDraft
                    + summary'.SkippedBranch + summary'.SkippedNoChange
                    + summary'.Errors = Len(results')
             /\ summary'.Total = Len(config.Projects)
             /\ config' = config]_vars

\* Two entries are through, with a result each, while Total is still 2
C27_Witness ==
    /\ pc = "running"
    /\ idx = 3
    /\ Len(results) = 2
    /\ results[1].Project = results[2].Project
    /\ CounterSum = 2
    /\ summary.Total = 2

-----------------------------------------------------------------------------
(* C28 *)

\* C28 as stated: processProject returns a result with one of the six statuses,
\* without crashing, for every behaviour the GitLabClient interface permits, a nil
\* value with a nil error from GetProject, CompareBranches or CreateMergeRequest
\* included.
C28_AlwaysReturnsAStatus ==
    Reconciled
        => /\ pc # "crashed"
           /\ Len(results) = 1
           /\ Last.Status \in Statuses

-----------------------------------------------------------------------------
(* C29 *)

\* The configuration of the run with Verbose the other way
OtherVerbose == [config EXCEPT !.Verbose = ~@]

\* The latest reconciliation as the run made it, and as the run with Verbose the
\* other way makes it against the same platform meeting the same behaviour
AsRun   == processProject(config, before.gw, fault, before.path)
AsOther == processProject(OtherVerbose, before.gw, fault, before.path)

\* C29: Verbose does not influence the outcome: two runs that differ only in
\* Verbose issue the same sequence of gateway calls and return identical results
\* and summary.
C29_VerboseChangesNothing ==
    Reconciled
        => /\ calls = AsRun.calls
           /\ AsOther.calls = calls
           /\ AsOther.gw = gw
           /\ AsOther.panicked = (pc = "crashed")
           /\ Returned
                 => /\ AsOther.result = Last
                    /\ Tally(NewSummary(Len(config.Projects)), AsOther.result.Status) = summary

\* A verbose reconciliation that logged its four lines and created a merge request
C29_Witness ==
    /\ Returned
    /\ config.Verbose
    /\ Len(verbose) = 4
    /\ AsOther.log = <<>>
    /\ Last.Status = StatusCreated

-----------------------------------------------------------------------------
(* C30 *)

\* The lines read from the input, and the projects whose listing of merge
\* requests failed
AnswersRead    == Len(cmd.input) - Len(cmd.stdin)
ListingsFailed == Cardinality({i \in 1..Len(cmd.listed) : cmd.listed[i] \in cmd.failing})

\* C30: when the merge command finishes (and all along), mergedCount +
\* skippedCount + errorCount is the number of prompts an answer line was read for
\* plus the number of projects whose listing failed; a prompt at the end of the
\* input counts nowhere and accepts nothing.
C30_CountersMatchAnswers ==
    Merging
        => /\ cmd.mergedCount + cmd.skippedCount + cmd.errorCount
                 = AnswersRead + ListingsFailed
           /\ AnswersRead <= Len(cmd.prompts)
           /\ \A i \in 1..Len(cmd.accepted) : cmd.accepted[i].prompt <= AnswersRead
           /\ cmd.mergedCount
                 = Cardinality({i \in 1..Len(cmd.accepted) : cmd.accepted[i].ok})
           /\ cmd.errorCount
                 = ListingsFailed
                     + Cardinality({i \in 1..Len(cmd.accepted) : ~cmd.accepted[i].ok})

\* A finished command that read one answer, met the end of the input at a later
\* prompt and could not list one project
C30_Witness ==
    /\ Merging /\ pc = "exited"
    /\ AnswersRead = 1
    /\ Len(cmd.prompts) > AnswersRead
    /\ ListingsFailed = 1
    /\ cmd.mergedCount + cmd.skippedCount + cmd.errorCount = 2

-----------------------------------------------------------------------------
(* C24 *)

\* C24: bulk-mr-topic asks for the pages 1, 2, 3, ... in order and stops at the
\* first page that is empty or shorter than per-page, so after no more requests
\* than the topic has projects, and one; what it has fetched is always the start
\* of the topic's list, and the paths ProcessProjects gets are the whole list in
\* listing order, each once.
C24_FetchesAllPagesInOrder ==
    cmd.name = "bulk-mr-topic"
        => /\ \A i \in 1..Len(cmd.asked) : cmd.asked[i] = i
           /\ Len(cmd.asked) <= Len(cmd.server) + 1
           /\ cmd.allProjects = SubSeq(cmd.server, 1, Len(cmd.allProjects))
           /\ pc = "fetching" => cmd.page = Len(cmd.asked) + 1
           /\ Started => config.Projects = cmd.server
           /\ (Exited /\ ~Started /\ cmd.exit = 0) => cmd.server = <<>>

====
